---- MODULE Spec2Model ----
(***************************************************************************)
(* Scoring, ranking, contribution and trend engine of dev_productivity_app *)
(* (calculator/score_calculator.py), the bounded-retry loop and fetch of   *)
(* the GitHub fetcher (fetchers/github_fetcher.py) and fetch, build_jql,   *)
(* _execute_jql and parse_response of the Jira fetcher                     *)
(* (fetchers/jira_fetcher.py).                                             *)
(*                                                                         *)
(* Numbers: the Python code computes in binary floating point.  The model  *)
(* computes in exact rationals [n, d] (reduced, d > 0); rounding error is  *)
(* thus abstracted and "== 100" reads as equality of the exact values.     *)
(* A dict is a sequence of entries in insertion order (Python dicts keep   *)
(* insertion order), so iteration order is part of the state.              *)
(***************************************************************************)
EXTENDS Integers, Sequences, FiniteSets, TLC

VARIABLES
    pc,            \* position of the engine pipeline / of the retry loop
    raw_data,      \* raw_data["metrics"]: sequence of [name, data]
    config,        \* config["weights"]: function from a set of keys to rationals
    scores,        \* result of calculate_scores: sequence of [name, data]
    used_weights,  \* the three weights calculate_scores multiplied by (lines 59-61)
    error,         \* exception that ended the last engine call, or NoError
    ranked,        \* result of rank_scores
    contributions, \* result of calculate_component_contributions
    current_scores, previous_scores,  \* arguments of compare_periods
    comparison,    \* result of compare_periods
    retry_count,   \* GitHubFetcher.retry_count
    attempts,      \* local variable attempts of _run_gh_command_with_retry
    history,       \* outcomes of the subprocess.run calls made so far
    sleeps,        \* number of time.sleep calls made so far
    gh_result,     \* return value of _run_gh_command_with_retry, or exception
    fetcher,       \* the fetcher object: its class and constructor arguments
    member,        \* the TeamMember passed to fetch: the identifier the fetcher reads
                   \* and hash_val, int(md5(identifier).hexdigest(), 16)
    period,        \* the Period passed to fetch / build_jql: [start_date, end_date]
    jql,           \* the query build_jql returned
    env,           \* what the credentials and the subprocess did during the last fetch
    external_calls,\* subprocess.run and _execute_jql invocations made by fetch
    fetched,       \* results of the fetch calls made so far
    call_log,      \* the engine calls made so far: [fn, result]
    snapshot       \* the arguments as the caller built them, before any call

vars == <<pc, raw_data, config, scores, used_weights, error, ranked,
          contributions, current_scores, previous_scores, comparison,
          retry_count, attempts, history, sleeps, gh_result,
          fetcher, member, period, jql, env, external_calls, fetched,
          call_log, snapshot>>

engine_vars == <<raw_data, config, scores, used_weights, error, ranked, contributions>>
trend_vars  == <<current_scores, previous_scores, comparison>>
gh_vars     == <<retry_count, attempts, history, sleeps, gh_result>>
fetch_vars  == <<fetcher, member, period, jql, env, external_calls, fetched>>
log_vars    == <<call_log, snapshot>>

-----------------------------------------------------------------------------
(* Bounds of the model *)

MaxRaw == 2            \* raw counters range over 0..MaxRaw
MaxRankMembers == 4    \* rank_scores is applied to up to this many members
MaxTotalQuarters == 5  \* compare_periods totals range over 0, 1/4, .. MaxTotalQuarters/4
MaxRetryCount == 3     \* retry_count ranges over 0..MaxRetryCount
MaxJsonLen == 2        \* a successful gh call returns a JSON list of 0..MaxJsonLen items
MaxIssues == 2         \* a Jira response lists 0..MaxIssues issues
MaxPoints == 2         \* the story points of an issue range over 0..MaxPoints
MaxHash == 59          \* the md5 value of a member's identifier ranges over 0..MaxHash
MaxCalls == 2          \* fetch is called up to MaxCalls times on a test-mode fetcher
MaxDay == 4            \* dates range over the days 1..MaxDay
MaxMcpIssues == 3      \* issues in one MCP response
MaxField == 2          \* the counters of a merged MetricData range over 0..MaxField
MaxEngineCalls == 3    \* the engine functions are called up to MaxEngineCalls times in a run

-----------------------------------------------------------------------------
(* Exact rational arithmetic standing for Python float arithmetic *)

Abs(i) == IF i < 0 THEN -i ELSE i

RECURSIVE GCD(_, _)
GCD(a, b) == IF b = 0 THEN a ELSE GCD(b, a % b)

Norm(n, d) ==
    LET s == IF d < 0 THEN -1 ELSE 1
        g == GCD(Abs(n), Abs(d))
    IN  [n |-> (s * n) \div g, d |-> (s * d) \div g]

R(i) == [n |-> i, d |-> 1]
Frac(n, d) == Norm(n, d)

RAdd(x, y) == Norm(x.n * y.d + y.n * x.d, x.d * y.d)
RSub(x, y) == Norm(x.n * y.d - y.n * x.d, x.d * y.d)
RMul(x, y) == Norm(x.n * y.n, x.d * y.d)
RDiv(x, y) == Norm(x.n * y.d, x.d * y.n)       \* y # 0
RLt(x, y)  == x.n * y.d < y.n * x.d
RGt(x, y)  == RLt(y, x)
RAbs(x)    == [n |-> Abs(x.n), d |-> x.d]

Zero == R(0)
Hundred == R(100)

RECURSIVE RSum(_)
RSum(s) == IF s = <<>> THEN Zero ELSE RAdd(Head(s), RSum(Tail(s)))

RECURSIVE SetToSeq(_)
SetToSeq(S) == IF S = {} THEN <<>>
               ELSE LET x == CHOOSE y \in S : TRUE IN <<x>> \o SetToSeq(S \ {x})

Range(s) == {s[i] : i \in DOMAIN s}

-----------------------------------------------------------------------------
(* Values *)

NoError == [type |-> "none", names |-> {}]

\* Python values of a raw counter: an int, or a value of a non-numeric type (str)
PyInt(i) == [type |-> "int", v |-> i]
PyStr == [type |-> "str"]

Counters == <<"items_completed", "prs_authored", "code_reviews">>
WeightKeys == {"items_completed", "prs_authored", "code_reviews", "story_points"}

\* dict.get(key, default)
Get(f, k, default) == IF k \in DOMAIN f THEN f[k] ELSE default

\* a > b on Python values: int with int compares, str with str compares
\* (the model has one str value, so it is never greater), int with str raises
\* TypeError
PyGt(a, b) ==
    IF a.type = "int" /\ b.type = "int" THEN [ok |-> TRUE, v |-> a.v > b.v]
    ELSE IF a.type = b.type THEN [ok |-> TRUE, v |-> FALSE]
    ELSE [ok |-> FALSE, v |-> FALSE]

\* max(iterable, default=0): keeps the first element and replaces it by every
\* later element that compares greater; a failing comparison raises TypeError
RECURSIVE PyMaxFrom(_, _)
PyMaxFrom(best, rest) ==
    IF rest = <<>> THEN [ok |-> TRUE, v |-> best]
    ELSE LET c == PyGt(Head(rest), best)
         IN  IF ~c.ok THEN [ok |-> FALSE, v |-> best]
             ELSE PyMaxFrom(IF c.v THEN Head(rest) ELSE best, Tail(rest))

\* mutant of PyMax: the first value of the column stands for its maximum
PyMaxOfFirst(values) ==
    IF values = <<>> THEN [ok |-> TRUE, v |-> PyInt(0)]
    ELSE [ok |-> TRUE, v |-> Head(values)]

PyMax(values) ==
    IF values = <<>> THEN [ok |-> TRUE, v |-> PyInt(0)]
    ELSE PyMaxFrom(Head(values), Tail(values))

\* (m.get(counter, 0) for m in metrics.values())
Column(metrics, counter) ==
    [i \in DOMAIN metrics |-> Get(metrics[i].data, counter, PyInt(0))]

-----------------------------------------------------------------------------
(* calculate_scores *)

DefaultWeight(k) ==
    CASE k = "items_completed" -> Frac(5, 10)
      [] k = "prs_authored"    -> Frac(3, 10)
      [] k = "code_reviews"    -> Frac(2, 10)

Tolerance == Frac(1, 100)

\* weight_sum = sum(weights.values())
WeightSum(weights) == RSum([i \in 1..Cardinality(DOMAIN weights) |->
                              weights[SetToSeq(DOMAIN weights)[i]]])

\* mutant of NormalizeWeights: the weights are never normalized
NormalizeWeightsNever(weights) == weights

\* mutant of NormalizeWeights: no tolerance, any positive sum other than 1 is
\* normalized
NormalizeWeightsNoTolerance(weights) ==
    LET weight_sum == WeightSum(weights)
    IN  IF RGt(weight_sum, Zero) /\ weight_sum # R(1)
        THEN [k \in DOMAIN weights |-> RDiv(weights[k], weight_sum)]
        ELSE weights

\* lines 28-30: the weights dict after the normalization step
NormalizeWeights(weights) ==
    LET weight_sum == WeightSum(weights)
    IN  IF RGt(weight_sum, Zero) /\ RGt(RAbs(RSub(weight_sum, R(1))), Tolerance)
        THEN [k \in DOMAIN weights |-> RDiv(weights[k], weight_sum)]
        ELSE weights

\* mutant of AppliedWeight: "weights.get(k) or default", a weight of 0 falls
\* back to the default
AppliedWeightOrDefault(weights, k) ==
    IF k \in DOMAIN weights /\ weights[k] # Zero THEN weights[k] ELSE DefaultWeight(k)

\* lines 59-61: the weight a counter's scaled score is multiplied by
AppliedWeight(weights, k) == Get(weights, k, DefaultWeight(k))

\* mutant of ScaledScore: the ratio without the scaling to 100
ScaledScoreRatio(raw, max) ==
    IF max > 0 THEN RDiv(R(raw), R(max)) ELSE Zero

\* mutant of ScaledScore: a counter nobody scored on counts as fully met
ScaledScoreZeroMaxFull(raw, max) ==
    IF max > 0 THEN RMul(RDiv(R(raw), R(max)), Hundred) ELSE Hundred

\* lines 54-56: (raw / max * 100) if max > 0 else 0.0, on numbers
ScaledScore(raw, max) ==
    IF max > 0 THEN RMul(RDiv(R(raw), R(max)), Hundred) ELSE Zero

\* mutant of ScoreRecord: the total adds the scaled scores, not the weighted ones
ScoreRecordTotalOfScores(data, max_items, max_prs, max_reviews, weights) ==
    LET items_score == ScaledScore(Get(data, "items_completed", PyInt(0)).v, max_items)
        prs_score == ScaledScore(Get(data, "prs_authored", PyInt(0)).v, max_prs)
        reviews_score == ScaledScore(Get(data, "code_reviews", PyInt(0)).v, max_reviews)
    IN  [items_score |-> items_score, prs_score |-> prs_score,
         reviews_score |-> reviews_score,
         items_weighted |-> RMul(items_score, AppliedWeight(weights, "items_completed")),
         prs_weighted |-> RMul(prs_score, AppliedWeight(weights, "prs_authored")),
         reviews_weighted |-> RMul(reviews_score, AppliedWeight(weights, "code_reviews")),
         total |-> RAdd(RAdd(items_score, prs_score), reviews_score)]

\* lines 48-77: the score record of one member (all operands numbers)
ScoreRecord(data, max_items, max_prs, max_reviews, weights) ==
    LET items == Get(data, "items_completed", PyInt(0)).v
        prs == Get(data, "prs_authored", PyInt(0)).v
        reviews == Get(data, "code_reviews", PyInt(0)).v
        items_score == ScaledScore(items, max_items)
        prs_score == ScaledScore(prs, max_prs)
        reviews_score == ScaledScore(reviews, max_reviews)
        items_weighted == RMul(items_score, AppliedWeight(weights, "items_completed"))
        prs_weighted == RMul(prs_score, AppliedWeight(weights, "prs_authored"))
        reviews_weighted == RMul(reviews_score, AppliedWeight(weights, "code_reviews"))
    IN  [items_score |-> items_score, prs_score |-> prs_score,
         reviews_score |-> reviews_score,
         items_weighted |-> items_weighted, prs_weighted |-> prs_weighted,
         reviews_weighted |-> reviews_weighted,
         total |-> RAdd(RAdd(items_weighted, prs_weighted), reviews_weighted)]

\* The exception the interpreter raises on an int/str comparison or division.
\* score_calculator.py has no raise statement of its own: the message names the
\* operand types only, no member and no counter.
TypeError == [type |-> "TypeError", names |-> {}]

\* mutant of calculate_scores: the weights are divided by their sum whenever it
\* differs from 1, so a zero sum raises ZeroDivisionError
calculate_scores_unguarded_sum(metrics, weights_in) ==
    IF metrics = <<>>
    THEN [ok |-> TRUE, scores |-> <<>>, used |-> <<>>, error |-> NoError]
    ELSE IF weights_in # <<>> /\ WeightSum(weights_in) = Zero
    THEN [ok |-> FALSE, scores |-> <<>>, used |-> <<>>,
          error |-> [type |-> "ZeroDivisionError", names |-> {}]]
    ELSE
    LET weights == NormalizeWeights(weights_in)
        max_items == PyMax(Column(metrics, "items_completed"))
        max_prs == PyMax(Column(metrics, "prs_authored"))
        max_reviews == PyMax(Column(metrics, "code_reviews"))
    IN  [ok |-> TRUE,
         scores |-> [i \in DOMAIN metrics |->
                       [name |-> metrics[i].name,
                        data |-> ScoreRecord(metrics[i].data, max_items.v.v,
                                             max_prs.v.v, max_reviews.v.v, weights)]],
         used |-> [k \in Range(Counters) |-> AppliedWeight(weights, k)],
         error |-> NoError]

\* calculate_scores(raw_data, config): [ok, scores, used, error]
calculate_scores(metrics, weights_in) ==
    IF metrics = <<>>
    THEN [ok |-> TRUE, scores |-> <<>>, used |-> <<>>, error |-> NoError]
    ELSE
    LET weights == NormalizeWeights(weights_in)
        max_items == PyMax(Column(metrics, "items_completed"))
        max_prs == PyMax(Column(metrics, "prs_authored"))
        max_reviews == PyMax(Column(metrics, "code_reviews"))
        raise == [ok |-> FALSE, scores |-> <<>>, used |-> <<>>, error |-> TypeError]
    IN  IF ~max_items.ok \/ ~max_prs.ok \/ ~max_reviews.ok THEN raise
        ELSE IF \E m \in {max_items, max_prs, max_reviews} : ~PyGt(m.v, PyInt(0)).ok
        THEN raise      \* max > 0 in the first iteration of the loop
        ELSE [ok |-> TRUE,
              scores |-> [i \in DOMAIN metrics |->
                            [name |-> metrics[i].name,
                             data |-> ScoreRecord(metrics[i].data, max_items.v.v,
                                                  max_prs.v.v, max_reviews.v.v, weights)]],
              used |-> [k \in Range(Counters) |-> AppliedWeight(weights, k)],
              error |-> NoError]

\* mutant of ArgumentsAfterCalculateScores: the weights are normalized in place
ArgumentsNormalizedInPlace(metrics, weights_in) ==
    [metrics |-> metrics,
     weights |-> IF metrics = <<>> THEN weights_in ELSE NormalizeWeights(weights_in)]

\* the caller's raw_data["metrics"] and config["weights"] after the call: lines
\* 20-30 read them, and line 30 binds the local name weights to a new dict
ArgumentsAfterCalculateScores(metrics, weights_in) ==
    [metrics |-> metrics, weights |-> weights_in]

-----------------------------------------------------------------------------
(* rank_scores *)

\* mutant of InsertDesc: the sort without reverse=True
InsertAsc(sorted, x) ==
    LET lower == SelectSeq(sorted, LAMBDA e : ~RGt(e.data.total, x.data.total))
        higher == SelectSeq(sorted, LAMBDA e : RGt(e.data.total, x.data.total))
    IN  lower \o <<x>> \o higher

\* mutant of InsertDesc: an entry is placed before the entries of equal total
RECURSIVE InsertDescBeforeTies(_, _)
InsertDescBeforeTies(sorted, x) ==
    IF sorted = <<>> THEN <<x>>
    ELSE IF ~RGt(Head(sorted).data.total, x.data.total) THEN <<x>> \o sorted
    ELSE <<Head(sorted)>> \o InsertDescBeforeTies(Tail(sorted), x)

\* sorted(scores.items(), key=total, reverse=True): Python's sort is stable and
\* reverse=True keeps the input order of entries with equal keys
RECURSIVE InsertDesc(_, _)
InsertDesc(sorted, x) ==
    IF sorted = <<>> THEN <<x>>
    ELSE IF RLt(Head(sorted).data.total, x.data.total) THEN <<x>> \o sorted
    ELSE <<Head(sorted)>> \o InsertDesc(Tail(sorted), x)

RECURSIVE SortFrom(_, _)
SortFrom(sorted, rest) ==
    IF rest = <<>> THEN sorted
    ELSE SortFrom(InsertDesc(sorted, Head(rest)), Tail(rest))

SortedMembers(s) == SortFrom(<<>>, s)

\* mutant of NextRank: every entry is numbered by its position, ties included
NextRankByPosition(current_rank, has_prev, prev_total, total, i) == i + 1

\* mutant of NextRank: dense ranking, the next lower total takes the next number
NextRankDense(current_rank, has_prev, prev_total, total, i) ==
    IF has_prev /\ RLt(total, prev_total) THEN current_rank + 1 ELSE current_rank

\* line 110: the rank of the entry at 0-based index i
NextRank(current_rank, has_prev, prev_total, total, i) ==
    IF has_prev /\ RLt(total, prev_total) THEN i + 1 ELSE current_rank

\* lines 104-119: the loop over enumerate(sorted_members), from 1-based index j
RECURSIVE RankLoop(_, _, _, _, _)
RankLoop(sorted_members, j, current_rank, has_prev, prev_total) ==
    IF j > Len(sorted_members) THEN <<>>
    ELSE LET e == sorted_members[j]
             r == NextRank(current_rank, has_prev, prev_total, e.data.total, j - 1)
         IN  <<e.data @@ [rank |-> r, name |-> e.name]>>   \* {rank, name, **score_data}
             \o RankLoop(sorted_members, j + 1, r, TRUE, e.data.total)

rank_scores(s) ==
    IF s = <<>> THEN <<>>
    ELSE RankLoop(SortedMembers(s), 1, 1, FALSE, Zero)

\* the caller's scores after rank_scores: lines 98-119 read them, every
\* entry of the result is a new dict {rank, name, **score_data}
ArgumentAfterRankScores(s) == s

-----------------------------------------------------------------------------
(* calculate_component_contributions *)

\* mutant of Contribution: shares of the scaled scores, not of the weighted ones
ContributionOfScaled(data) ==
    LET total == Get(data, "total", Zero)
    IN  IF RGt(total, Zero)
        THEN [items_pct |-> RMul(RDiv(Get(data, "items_score", Zero), total), Hundred),
              prs_pct |-> RMul(RDiv(Get(data, "prs_score", Zero), total), Hundred),
              reviews_pct |-> RMul(RDiv(Get(data, "reviews_score", Zero), total), Hundred)]
        ELSE [items_pct |-> Zero, prs_pct |-> Zero, reviews_pct |-> Zero]

\* lines 137-150: the percentages of one member
Contribution(data) ==
    LET total == Get(data, "total", Zero)
    IN  IF RGt(total, Zero)
        THEN [items_pct |-> RMul(RDiv(Get(data, "items_weighted", Zero), total), Hundred),
              prs_pct |-> RMul(RDiv(Get(data, "prs_weighted", Zero), total), Hundred),
              reviews_pct |-> RMul(RDiv(Get(data, "reviews_weighted", Zero), total), Hundred)]
        ELSE [items_pct |-> Zero, prs_pct |-> Zero, reviews_pct |-> Zero]

calculate_component_contributions(s) ==
    [i \in DOMAIN s |-> [name |-> s[i].name, data |-> Contribution(s[i].data)]]

\* the caller's scores after calculate_component_contributions (lines 137-150
\* read them)
ArgumentAfterContributions(s) == s

-----------------------------------------------------------------------------
(* compare_periods: the score sets are functions from member names to records *)

Half == Frac(1, 2)

\* mutant of Trend: inclusive thresholds
TrendInclusive(change) ==
    IF ~RLt(change, Half) THEN "up"
    ELSE IF ~RGt(change, RSub(Zero, Half)) THEN "down"
    ELSE "stable"

\* lines 175-180
Trend(change) ==
    IF RGt(change, Half) THEN "up"
    ELSE IF RLt(change, RSub(Zero, Half)) THEN "down"
    ELSE "stable"

\* current_scores.get(name, {}).get("total", 0)
TotalOf(score_set, name) == Get(Get(score_set, name, <<>>), "total", Zero)

\* mutant of TrendRecord: an absent member keeps the total of the other period
TrendRecordCarry(cur, prev, name) ==
    LET current == IF name \in DOMAIN cur THEN TotalOf(cur, name) ELSE TotalOf(prev, name)
        previous == IF name \in DOMAIN prev THEN TotalOf(prev, name) ELSE TotalOf(cur, name)
        change == RSub(current, previous)
    IN  [current |-> current, previous |-> previous,
         change |-> change, trend |-> Trend(change)]

\* lines 171-187: the trend record of one member
TrendRecord(cur, prev, name) ==
    LET current == TotalOf(cur, name)
        previous == TotalOf(prev, name)
        change == RSub(current, previous)
    IN  [current |-> current, previous |-> previous,
         change |-> change, trend |-> Trend(change)]

\* mutant of compare_periods: only the members of the current period are compared
compare_periods_current_only(cur, prev) ==
    [name \in DOMAIN cur |-> TrendRecord(cur, prev, name)]

compare_periods(cur, prev) ==
    LET all_names == DOMAIN cur \cup DOMAIN prev
    IN  [name \in all_names |-> TrendRecord(cur, prev, name)]

\* the caller's score sets after compare_periods (lines 168-172 read them)
ArgumentsAfterComparePeriods(cur, prev) == [current |-> cur, previous |-> prev]

-----------------------------------------------------------------------------
(* GitHubFetcher._run_gh_command_with_retry *)

\* What one subprocess.run call can do
Outcomes ==
    {[kind |-> "exit0_json", len |-> n] : n \in 0..MaxJsonLen}  \* JSON list of n items
    \cup {[kind |-> k, len |-> 0] :
            k \in {"exit0_badjson",  \* exit 0, stdout is not JSON: JSONDecodeError
                   "exit0_scalar",   \* exit 0, stdout is JSON without len(): TypeError
                   "rate_limit",     \* exit # 0, "rate limit" in stderr
                   "fail_other",     \* exit # 0, other stderr
                   "timeout",        \* subprocess.TimeoutExpired
                   "exception"}}     \* any other Exception (gh not installed, ...)

\* mutant of HandleOutcome: without the catch-all "except Exception" clause
HandleOutcomeNoCatchAll(o, n_attempts, n_retry) ==
    CASE o.kind = "exit0_json"    -> [next |-> "return", value |-> o.len]
      [] o.kind = "exit0_badjson" -> [next |-> "return", value |-> 0]
      [] o.kind = "exit0_scalar"  -> [next |-> "raise", value |-> 0]
      [] o.kind = "rate_limit"    ->
            IF n_attempts < n_retry THEN [next |-> "sleep", value |-> 0]
            ELSE [next |-> "return", value |-> 0]
      [] o.kind = "fail_other"    -> [next |-> "return", value |-> 0]
      [] o.kind = "timeout"       ->
            IF n_attempts < n_retry THEN [next |-> "sleep", value |-> 0]
            ELSE [next |-> "return", value |-> 0]
      [] o.kind = "exception"     -> [next |-> "raise", value |-> 0]

\* mutant of HandleOutcome: every non-zero exit is retried, whatever stderr says
HandleOutcomeRetryAnyFailure(o, n_attempts, n_retry) ==
    CASE o.kind = "exit0_json"    -> [next |-> "return", value |-> o.len]
      [] o.kind \in {"exit0_badjson", "exit0_scalar", "exception"}
                                  -> [next |-> "return", value |-> 0]
      [] o.kind \in {"rate_limit", "fail_other", "timeout"} ->
            IF n_attempts < n_retry THEN [next |-> "sleep", value |-> 0]
            ELSE [next |-> "return", value |-> 0]

\* mutant of HandleOutcome: a retryable failure sleeps even when it was the
\* last allowed attempt
HandleOutcomeSleepOnLast(o, n_attempts, n_retry) ==
    CASE o.kind = "exit0_json"    -> [next |-> "return", value |-> o.len]
      [] o.kind \in {"exit0_badjson", "exit0_scalar", "fail_other", "exception"}
                                  -> [next |-> "return", value |-> 0]
      [] o.kind \in {"rate_limit", "timeout"} -> [next |-> "sleep", value |-> 0]

\* lines 136-164: what the body of the loop does with the outcome of the call
HandleOutcome(o, n_attempts, n_retry) ==
    CASE o.kind = "exit0_json"    -> [next |-> "return", value |-> o.len]
      [] o.kind = "exit0_badjson" -> [next |-> "return", value |-> 0]
      [] o.kind = "exit0_scalar"  -> [next |-> "return", value |-> 0]
      [] o.kind = "rate_limit"    ->
            IF n_attempts < n_retry THEN [next |-> "sleep", value |-> 0]
            ELSE [next |-> "return", value |-> 0]
      [] o.kind = "fail_other"    -> [next |-> "return", value |-> 0]
      [] o.kind = "timeout"       ->
            IF n_attempts < n_retry THEN [next |-> "sleep", value |-> 0]
            ELSE [next |-> "return", value |-> 0]
      [] o.kind = "exception"     -> [next |-> "return", value |-> 0]

\* line 133: the loop condition
LoopCondition(n_attempts, n_retry) == n_attempts < n_retry

NotReturned == [kind |-> "running", value |-> 0]
Returned(v) == [kind |-> "return", value |-> v]
Raised == [kind |-> "raise", value |-> 0]

-----------------------------------------------------------------------------
(* base_fetcher: Period and MetricData *)

\* a datetime.date, counted in days; None where a date is expected
Date(day) == [type |-> "date", day |-> day]
NoDate == [type |-> "NoneType", day |-> 0]

\* Period.to_jql_dates and Period.to_github_date_range: strftime of both dates,
\* AttributeError when one of them is not a date
FormatsDates(p) == p.start_date.type = "date" /\ p.end_date.type = "date"

\* MetricData(...): the four counters, 0 unless given
MetricData(items, points, prs, reviews) ==
    [items_completed |-> items, story_points |-> points,
     prs_authored |-> prs, code_reviews |-> reviews]

\* what a call gave back: a MetricData returned, or an exception propagated,
\* and the number of _execute_jql and subprocess.run invocations it made
Return(data, calls) == [kind |-> "return", data |-> data, calls |-> calls]
Raise(calls) == [kind |-> "raise", data |-> MetricData(0, 0, 0, 0), calls |-> calls]

\* lines 103-110: self.merge(other); "x if x else y" keeps x unless it is 0
merge(self, other) ==
    MetricData(
        IF self.items_completed # 0 THEN self.items_completed ELSE other.items_completed,
        IF self.story_points # 0 THEN self.story_points ELSE other.story_points,
        IF self.prs_authored # 0 THEN self.prs_authored ELSE other.prs_authored,
        IF self.code_reviews # 0 THEN self.code_reviews ELSE other.code_reviews)

-----------------------------------------------------------------------------
(* JiraFetcher *)

DefaultDoneStatuses == {"Done", "Ready for Release"}

\* line 75: done_statuses or ["Done", "Ready for Release"]
DoneStatuses(done_statuses) ==
    IF done_statuses = {} THEN DefaultDoneStatuses ELSE done_statuses

\* mutant of jira_fetch_test_data: the remainders without their offsets
jira_fetch_test_data_unshifted(hash_val) ==
    MetricData(hash_val % 40, hash_val % 30, 0, 0)

\* lines 104-124
jira_fetch_test_data(hash_val) ==
    MetricData((hash_val % 40) + 10, (hash_val % 30) + 5, 0, 0)

\* lines 126-148: the query, clause by clause; end_date is formatted (line 136)
\* and appears in no clause
build_jql(f, m, p) ==
    IF ~FormatsDates(p) THEN [ok |-> FALSE, jql |-> <<>>]
    ELSE [ok |-> TRUE,
          jql |-> [project |-> f.project,
                   assignee |-> m.account,
                   status_in |-> f.done_statuses,
                   updated_from |-> p.start_date.day]]

\* The issues of a response: what parse_response finds in each
IssueKinds ==
    {[kind |-> "points", sp |-> n] : n \in 0..MaxPoints}   \* fields[customfield] = n
    \cup {[kind |-> k, sp |-> 0] :
            k \in {"no_points",     \* the custom field is absent or null
                   "fields_null",   \* "fields": null, None.get: AttributeError
                   "bad_points",    \* the custom field is not a number: ValueError
                   "not_object"}}   \* the issue is a string: AttributeError

IssueLists == UNION {[1..n -> IssueKinds] : n \in 0..MaxIssues}

\* JSON documents the server can answer with.  type: dict, list, str, number
\* or null; has_issues: "issues" in response; issues: the value under that key,
\* a list of issues or a non-empty value of another type
JsonDict(has_issues, issues_type, items) ==
    [type |-> "dict", has_issues |-> has_issues,
     issues_type |-> issues_type, items |-> items]
JsonOther(type, has_issues) ==
    [type |-> type, has_issues |-> has_issues, issues_type |-> "none", items |-> <<>>]

EmptyResponse == JsonDict(TRUE, "list", <<>>)       \* {"issues": []}

JsonDocuments ==
    {JsonDict(TRUE, "list", l) : l \in IssueLists}
    \cup {JsonDict(TRUE, t, <<>>) : t \in {"null", "number", "str", "dict"}}
    \cup {JsonDict(FALSE, "none", <<>>)}            \* errorMessages or anything else
    \cup {JsonOther(t, b) : t \in {"list", "str"}, b \in BOOLEAN}
    \cup {JsonOther(t, FALSE) : t \in {"number", "null"}}

NoJson == JsonOther("null", FALSE)

\* What the credentials lookup and subprocess.run can do during _execute_jql
JiraEnvs ==
    {[credentials |-> c, run |-> "none", body |-> NoJson] :
        c \in {"missing",        \* no token or no email
               "blank_token",    \* a token of whitespace only
               "malformed"}}     \* "jira" of .env.yaml is not a mapping: AttributeError
    \cup {[credentials |-> "ok", run |-> r, body |-> NoJson] :
            r \in {"timeout",        \* subprocess.TimeoutExpired
                   "oserror",        \* curl cannot be started
                   "nonzero",        \* curl exits with an error
                   "exit0_empty",    \* exit 0, empty stdout
                   "exit0_badjson"}} \* exit 0, stdout is not JSON: JSONDecodeError
    \cup {[credentials |-> "ok", run |-> "exit0_json", body |-> b] : b \in JsonDocuments}

\* lines 172-237: [response, calls], calls counting this call and subprocess.run
execute_jql(e) ==
    IF e.credentials # "ok" THEN [response |-> EmptyResponse, calls |-> 1]
    ELSE IF e.run # "exit0_json" THEN [response |-> EmptyResponse, calls |-> 2]
    ELSE IF e.body.type \in {"number", "null"}       \* "issues" in response: TypeError
    THEN [response |-> EmptyResponse, calls |-> 2]
    ELSE IF e.body.has_issues THEN [response |-> e.body, calls |-> 2]
    ELSE [response |-> EmptyResponse, calls |-> 2]

\* lines 164-168: the loop over the issues
RECURSIVE SumStoryPoints(_)
SumStoryPoints(issues) ==
    IF issues = <<>> THEN [ok |-> TRUE, story_points |-> 0]
    ELSE LET issue == Head(issues)
             rest == SumStoryPoints(Tail(issues))
         IN  IF issue.kind \in {"fields_null", "bad_points", "not_object"} \/ ~rest.ok
             THEN [ok |-> FALSE, story_points |-> 0]
             ELSE [ok |-> TRUE, story_points |-> issue.sp + rest.story_points]

\* lines 150-170: [ok, items, story_points]; not ok when an exception is raised
parse_response(response) ==
    LET raise == [ok |-> FALSE, items |-> 0, story_points |-> 0]
    IN  IF response.type # "dict" THEN raise                 \* no .get
        ELSE IF ~response.has_issues THEN [ok |-> TRUE, items |-> 0, story_points |-> 0]
        ELSE IF response.issues_type # "list" THEN raise     \* len() or issue.get
        ELSE LET s == SumStoryPoints(response.items)
             IN  IF ~s.ok THEN raise
                 ELSE [ok |-> TRUE, items |-> Len(response.items),
                       story_points |-> s.story_points]

\* mutant of jira_fetch: the body of the try block without its except clause
jira_fetch_no_except(f, m, p, e) ==
    IF f.test_mode THEN Return(jira_fetch_test_data(m.hash_val), 0)
    ELSE LET b == build_jql(f, m, p)
             x == execute_jql(e)
             r == parse_response(x.response)
         IN  IF ~b.ok THEN Raise(0)
             ELSE IF ~r.ok THEN Raise(x.calls)
             ELSE Return(MetricData(r.items, r.story_points, 0, 0), x.calls)

\* lines 79-102
jira_fetch(f, m, p, e) ==
    IF f.test_mode THEN Return(jira_fetch_test_data(m.hash_val), 0)
    ELSE LET b == build_jql(f, m, p)
             x == execute_jql(e)
             r == parse_response(x.response)
         IN  IF ~b.ok THEN Return(MetricData(0, 0, 0, 0), 0)
             ELSE IF ~r.ok THEN Return(MetricData(0, 0, 0, 0), x.calls)
             ELSE Return(MetricData(r.items, r.story_points, 0, 0), x.calls)

-----------------------------------------------------------------------------
(* GitHubFetcher.fetch *)

\* lines 55-75
github_fetch_test_data(hash_val) ==
    MetricData(0, 0, (hash_val % 30) + 5, (hash_val % 50) + 10)

\* lines 122-166: the loop on the outcomes of the successive subprocess.run
\* calls: [kind, value, calls]
RECURSIVE RunGhCommand(_, _, _)
RunGhCommand(outcomes, n_attempts, n_retry) ==
    IF ~LoopCondition(n_attempts, n_retry) \/ outcomes = <<>>
    THEN [kind |-> "return", value |-> 0, calls |-> 0]
    ELSE LET h == HandleOutcome(Head(outcomes), n_attempts + 1, n_retry)
             r == RunGhCommand(Tail(outcomes), n_attempts + 1, n_retry)
         IN  IF h.next = "sleep" THEN [r EXCEPT !.calls = @ + 1]
             ELSE [kind |-> h.next, value |-> h.value, calls |-> 1]

\* What the gh calls of one fetch do: the outcomes of the calls made for the
\* authored PRs and of those made for the reviews
GitHubEnvs(n_retry) ==
    {[prs |-> a, reviews |-> b] :
        a \in [1..n_retry -> Outcomes], b \in [1..n_retry -> Outcomes]}

\* lines 34-53, with fetch_prs_authored and fetch_code_reviews (lines 77-120)
github_fetch(f, m, p, e) ==
    IF f.test_mode THEN Return(github_fetch_test_data(m.hash_val), 0)
    ELSE IF ~FormatsDates(p) THEN Raise(0)     \* to_github_date_range
    ELSE LET prs_authored == RunGhCommand(e.prs, 0, f.retry_count)
             code_reviews == RunGhCommand(e.reviews, 0, f.retry_count)
         IN  IF prs_authored.kind = "raise" THEN Raise(prs_authored.calls)
             ELSE IF code_reviews.kind = "raise"
             THEN Raise(prs_authored.calls + code_reviews.calls)
             ELSE Return(MetricData(0, 0, prs_authored.value, code_reviews.value),
                         prs_authored.calls + code_reviews.calls)

-----------------------------------------------------------------------------
(* Inputs *)

MemberNames == <<"Alice", "Bob">>

\* metric sets of the first n names, every counter present, values from vals
MetricSetsOver(datas) ==
    UNION {{[i \in 1..n |-> [name |-> MemberNames[i], data |-> f[i]]] :
              f \in [1..n -> datas]} : n \in 0..Len(MemberNames)}

NumericData == [Range(Counters) -> {PyInt(i) : i \in 0..MaxRaw}]

WeightValues == {Zero, Half}

\* weight mappings: any subset of the keys; story_points is a key the scoring
\* does not read
WeightSets ==
    {w \in UNION {[K -> WeightValues] : K \in SUBSET WeightKeys} :
        "story_points" \in DOMAIN w => w["story_points"] = Half}

EngineIdle ==
    /\ raw_data = <<>> /\ config = <<>> /\ scores = <<>> /\ used_weights = <<>>
    /\ error = NoError /\ ranked = <<>> /\ contributions = <<>>

TrendIdle == current_scores = <<>> /\ previous_scores = <<>> /\ comparison = <<>>

GhIdle ==
    /\ retry_count = 0 /\ attempts = 0 /\ history = <<>> /\ sleeps = 0
    /\ gh_result = NotReturned

FetchIdle ==
    /\ fetcher = <<>> /\ member = <<>> /\ period = <<>> /\ jql = <<>> /\ env = <<>>
    /\ external_calls = 0 /\ fetched = <<>>

LogIdle == call_log = <<>> /\ snapshot = <<>>

-----------------------------------------------------------------------------
(* The scoring engine: calculate_scores, then the contributions of its output *)

Init ==
    /\ pc = "start"
    /\ raw_data \in MetricSetsOver(NumericData)
    /\ config \in WeightSets
    /\ scores = <<>> /\ used_weights = <<>> /\ error = NoError
    /\ ranked = <<>> /\ contributions = <<>>
    /\ TrendIdle /\ GhIdle /\ FetchIdle /\ LogIdle

CalculateScores ==
    /\ pc = "start"
    /\ LET r == calculate_scores(raw_data, config)
       IN  /\ scores' = r.scores
           /\ used_weights' = r.used
           /\ error' = r.error
           /\ pc' = IF r.ok THEN "scored" ELSE "raised"
    /\ UNCHANGED <<raw_data, config, ranked, contributions>>
    /\ UNCHANGED trend_vars /\ UNCHANGED gh_vars /\ UNCHANGED fetch_vars /\ UNCHANGED log_vars

CalculateComponentContributions ==
    /\ pc = "scored"
    /\ contributions' = calculate_component_contributions(scores)
    /\ pc' = "contributed"
    /\ UNCHANGED <<raw_data, config, scores, used_weights, error, ranked>>
    /\ UNCHANGED trend_vars /\ UNCHANGED gh_vars /\ UNCHANGED fetch_vars /\ UNCHANGED log_vars

Next == CalculateScores \/ CalculateComponentContributions

Spec == Init /\ [][Next]_vars

-----------------------------------------------------------------------------
(* The scoring engine on raw values of any shape: a counter may be absent     *)
(* from a member's data, or hold a str                                        *)

DefaultWeights ==
    [k \in Range(Counters) |-> DefaultWeight(k)]

ShapeData ==
    UNION {[K -> {PyInt(0), PyInt(1), PyStr}] : K \in SUBSET Range(Counters)}

InitShape ==
    /\ pc = "start"
    /\ raw_data \in MetricSetsOver(ShapeData)
    /\ config = DefaultWeights
    /\ scores = <<>> /\ used_weights = <<>> /\ error = NoError
    /\ ranked = <<>> /\ contributions = <<>>
    /\ TrendIdle /\ GhIdle /\ FetchIdle /\ LogIdle

SpecShape == InitShape /\ [][Next]_vars

-----------------------------------------------------------------------------
(* rank_scores on score sets given by their totals *)

RankNames == <<"m1", "m2", "m3", "m4", "m5", "m6">>

RankTotals == {Zero, R(50), Hundred}

RankInputs ==
    UNION {{[i \in 1..n |-> [name |-> RankNames[i], data |-> [total |-> f[i]]]] :
              f \in [1..n -> RankTotals]} : n \in 0..MaxRankMembers}

InitRank ==
    /\ pc = "rank_start"
    /\ scores \in RankInputs
    /\ raw_data = <<>> /\ config = <<>> /\ used_weights = <<>> /\ error = NoError
    /\ ranked = <<>> /\ contributions = <<>>
    /\ TrendIdle /\ GhIdle /\ FetchIdle /\ LogIdle

RankScores ==
    /\ pc = "rank_start"
    /\ ranked' = rank_scores(scores)
    /\ pc' = "ranked"
    /\ UNCHANGED <<raw_data, config, scores, used_weights, error, contributions>>
    /\ UNCHANGED trend_vars /\ UNCHANGED gh_vars /\ UNCHANGED fetch_vars /\ UNCHANGED log_vars

NextRankStep == RankScores

SpecRank == InitRank /\ [][NextRankStep]_vars

-----------------------------------------------------------------------------
(* rank_scores on one member-to-score mapping in two iteration orders:       *)
(* scores is ranked into ranked, snapshot (a reordering of scores) into      *)
(* call_log                                                                  *)

Reorderings(s) ==
    {[i \in 1..Len(s) |-> s[p[i]]] :
        p \in {q \in [1..Len(s) -> 1..Len(s)] :
                  \A a, b \in 1..Len(s) : q[a] = q[b] => a = b}}

InitPermute ==
    /\ pc = "rank_start"
    /\ scores \in RankInputs
    /\ snapshot \in Reorderings(scores)
    /\ call_log = <<>>
    /\ raw_data = <<>> /\ config = <<>> /\ used_weights = <<>> /\ error = NoError
    /\ ranked = <<>> /\ contributions = <<>>
    /\ TrendIdle /\ GhIdle /\ FetchIdle

RankReordered ==
    /\ pc = "ranked"
    /\ call_log' = rank_scores(snapshot)
    /\ pc' = "ranked_both"
    /\ UNCHANGED snapshot
    /\ UNCHANGED engine_vars /\ UNCHANGED trend_vars /\ UNCHANGED gh_vars
    /\ UNCHANGED fetch_vars

NextPermute == RankScores \/ RankReordered

SpecPermute == InitPermute /\ [][NextPermute]_vars

-----------------------------------------------------------------------------
(* compare_periods *)

TrendNames == {"Alice", "Bob"}

Quarter(q) == Frac(q, 4)

\* the score records of a period: only their total is read
TrendRecords == {[total |-> Quarter(q)] : q \in 0..MaxTotalQuarters}

TrendInputs == UNION {[K -> TrendRecords] : K \in SUBSET TrendNames}

InitCompare ==
    /\ pc = "compare_start"
    /\ current_scores \in TrendInputs
    /\ previous_scores \in TrendInputs
    /\ comparison = <<>>
    /\ EngineIdle /\ GhIdle /\ FetchIdle /\ LogIdle

ComparePeriods ==
    /\ pc = "compare_start"
    /\ comparison' = compare_periods(current_scores, previous_scores)
    /\ pc' = "compared"
    /\ UNCHANGED <<current_scores, previous_scores>>
    /\ UNCHANGED engine_vars /\ UNCHANGED gh_vars /\ UNCHANGED fetch_vars /\ UNCHANGED log_vars

NextCompare == ComparePeriods

SpecCompare == InitCompare /\ [][NextCompare]_vars

-----------------------------------------------------------------------------
(* GitHubFetcher._run_gh_command_with_retry *)

InitRetry ==
    /\ pc = "gh_while"
    /\ retry_count \in 0..MaxRetryCount
    /\ attempts = 0 /\ history = <<>> /\ sleeps = 0 /\ gh_result = NotReturned
    /\ EngineIdle /\ TrendIdle /\ FetchIdle /\ LogIdle

\* line 133-134: the loop test, and attempts += 1 when it passes
GhWhile ==
    /\ pc = "gh_while"
    /\ IF LoopCondition(attempts, retry_count)
       THEN attempts' = attempts + 1 /\ pc' = "gh_run" /\ UNCHANGED gh_result
       ELSE gh_result' = Returned(0) /\ pc' = "gh_done" /\ UNCHANGED attempts
    /\ UNCHANGED <<retry_count, history, sleeps>>
    /\ UNCHANGED engine_vars /\ UNCHANGED trend_vars /\ UNCHANGED fetch_vars /\ UNCHANGED log_vars

\* lines 136-164: subprocess.run and the handling of what it did
GhRun ==
    /\ pc = "gh_run"
    /\ \E o \in Outcomes :
        LET h == HandleOutcome(o, attempts, retry_count)
        IN  /\ history' = Append(history, o)
            /\ pc' = IF h.next = "sleep" THEN "gh_sleep" ELSE "gh_done"
            /\ gh_result' = CASE h.next = "return" -> Returned(h.value)
                              [] h.next = "raise" -> Raised
                              [] OTHER -> gh_result
    /\ UNCHANGED <<retry_count, attempts, sleeps>>
    /\ UNCHANGED engine_vars /\ UNCHANGED trend_vars /\ UNCHANGED fetch_vars /\ UNCHANGED log_vars

\* lines 154-155 and 160-161: time.sleep(self.retry_delay); continue
GhSleep ==
    /\ pc = "gh_sleep"
    /\ sleeps' = sleeps + 1
    /\ pc' = "gh_while"
    /\ UNCHANGED <<retry_count, attempts, history, gh_result>>
    /\ UNCHANGED engine_vars /\ UNCHANGED trend_vars /\ UNCHANGED fetch_vars /\ UNCHANGED log_vars

NextRetry == GhWhile \/ GhRun \/ GhSleep

SpecRetry == InitRetry /\ [][NextRetry]_vars

\* the loop runs whenever it can: the call is synchronous and nothing blocks it
FairRetry == SpecRetry /\ WF_vars(NextRetry)

-----------------------------------------------------------------------------
(* The pipeline calculate_scores, then rank_scores, on the two-member team   *)
(* of the test suite and its neighbours                                      *)

Metrics(items, prs, reviews) ==
    [items_completed |-> PyInt(items), prs_authored |-> PyInt(prs),
     code_reviews |-> PyInt(reviews)]

\* each counter takes the value of Alice or of Bob
ScenarioData ==
    {Metrics(i, p, r) : i \in {50, 25}, p \in {20, 40}, r \in {30, 15}}

Weights(items, prs, reviews) ==
    [items_completed |-> items, prs_authored |-> prs, code_reviews |-> reviews]

ScenarioWeights ==
    {Weights(Frac(5, 10), Frac(3, 10), Frac(2, 10)),
     Weights(R(1), Frac(6, 10), Frac(4, 10)),
     Weights(Frac(2, 10), Frac(3, 10), Frac(5, 10))}

InitScenario ==
    /\ pc = "start"
    /\ raw_data \in {<<[name |-> "Alice", data |-> a], [name |-> "Bob", data |-> b]>> :
                       a \in ScenarioData, b \in ScenarioData}
    /\ config \in ScenarioWeights
    /\ scores = <<>> /\ used_weights = <<>> /\ error = NoError
    /\ ranked = <<>> /\ contributions = <<>>
    /\ TrendIdle /\ GhIdle /\ FetchIdle /\ LogIdle

\* ranked = rank_scores(scores) on the scores just calculated
RankComputedScores ==
    /\ pc = "scored"
    /\ ranked' = rank_scores(scores)
    /\ pc' = "ranked"
    /\ UNCHANGED <<raw_data, config, scores, used_weights, error, contributions>>
    /\ UNCHANGED trend_vars /\ UNCHANGED gh_vars /\ UNCHANGED fetch_vars /\ UNCHANGED log_vars

NextScenario == CalculateScores \/ RankComputedScores

SpecScenario == InitScenario /\ [][NextScenario]_vars

-----------------------------------------------------------------------------
(* calculate_scores on weight sets around the normalization tolerance: sums  *)
(* of 0.98, 0.99, 1, 1.01, 1.02, sums far from 1, zero and negative sums     *)

ToleranceWeightValues ==
    {Frac(-1, 2), Zero, Frac(49, 100), Half, Frac(51, 100)}

ToleranceWeightSets ==
    {w \in UNION {[K -> ToleranceWeightValues \cup {Tolerance}] : K \in SUBSET WeightKeys} :
        /\ "story_points" \in DOMAIN w => w["story_points"] = Tolerance
        /\ \A k \in DOMAIN w \ {"story_points"} : w[k] \in ToleranceWeightValues}

ToleranceMetrics ==
    {<<[name |-> "Alice", data |-> Metrics(1, 1, 1)]>>,
     <<[name |-> "Alice", data |-> Metrics(2, 1, 0)],
       [name |-> "Bob", data |-> Metrics(1, 2, 0)]>>}

InitWeights ==
    /\ pc = "start"
    /\ raw_data \in ToleranceMetrics
    /\ config \in ToleranceWeightSets
    /\ scores = <<>> /\ used_weights = <<>> /\ error = NoError
    /\ ranked = <<>> /\ contributions = <<>>
    /\ TrendIdle /\ GhIdle /\ FetchIdle /\ LogIdle

NextWeights == CalculateScores

SpecWeights == InitWeights /\ [][NextWeights]_vars

-----------------------------------------------------------------------------
(* calculate_scores on weight sets holding all three counter keys, with sums *)
(* below, at and just above 1 (0.505 + 0.5 = 1.005 lies within the tolerance) *)

RangeWeightValues == {Zero, Frac(1, 4), Half, Frac(101, 200)}

RangeWeightSets == [Range(Counters) -> RangeWeightValues]

InitRange ==
    /\ pc = "start"
    /\ raw_data \in MetricSetsOver(NumericData)
    /\ config \in RangeWeightSets
    /\ scores = <<>> /\ used_weights = <<>> /\ error = NoError
    /\ ranked = <<>> /\ contributions = <<>>
    /\ TrendIdle /\ GhIdle /\ FetchIdle /\ LogIdle

NextRange == CalculateScores

SpecRange == InitRange /\ [][NextRange]_vars

-----------------------------------------------------------------------------
(* calculate_scores and rank_scores before and after one raw value is raised: *)
(* raw_data is scored and ranked into scores and ranked; snapshot, which is   *)
(* raw_data with one counter of one member raised, is scored and ranked into  *)
(* call_log[1] and call_log[2]                                                *)

RaiseData ==
    {Metrics(i, p, r) : i \in 0..MaxRaw, p \in 0..MaxRaw, r \in {0, 1}}

\* supplied as normalized, normalized by the code, partly and wholly defaulted,
\* and with counters of weight 0
RaiseWeightSets ==
    {Weights(Frac(5, 10), Frac(3, 10), Frac(2, 10)),
     Weights(R(1), Frac(6, 10), Frac(4, 10)),
     Weights(Zero, Zero, Half),
     Weights(Frac(101, 200), Half, Zero),
     [items_completed |-> Half],
     <<>>}

\* metrics with the counter c of member i raised to v
RaisedTo(metrics, i, c, v) ==
    [metrics EXCEPT ![i].data = [@ EXCEPT ![c] = PyInt(v)]]

RaisedMetrics(metrics) ==
    {RaisedTo(metrics, i, c, metrics[i].data[c].v + d) :
        i \in DOMAIN metrics, c \in Range(Counters), d \in {1, MaxRaw}}

InitRaise ==
    /\ pc = "start"
    /\ raw_data \in {<<[name |-> "Alice", data |-> a], [name |-> "Bob", data |-> b]>> :
                       a \in RaiseData, b \in RaiseData}
    /\ config \in RaiseWeightSets
    /\ snapshot \in RaisedMetrics(raw_data)
    /\ call_log = <<>>
    /\ scores = <<>> /\ used_weights = <<>> /\ error = NoError
    /\ ranked = <<>> /\ contributions = <<>>
    /\ TrendIdle /\ GhIdle /\ FetchIdle

\* calculate_scores on the raised metrics with the same config
CalculateRaised ==
    /\ pc = "ranked"
    /\ call_log' = <<calculate_scores(snapshot, config).scores>>
    /\ pc' = "raised_scored"
    /\ UNCHANGED snapshot
    /\ UNCHANGED engine_vars /\ UNCHANGED trend_vars /\ UNCHANGED gh_vars
    /\ UNCHANGED fetch_vars

\* rank_scores on the scores of the raised metrics
RankRaised ==
    /\ pc = "raised_scored"
    /\ call_log' = Append(call_log, rank_scores(call_log[1]))
    /\ pc' = "raised_ranked"
    /\ UNCHANGED snapshot
    /\ UNCHANGED engine_vars /\ UNCHANGED trend_vars /\ UNCHANGED gh_vars
    /\ UNCHANGED fetch_vars

NextRaise == CalculateScores \/ RankComputedScores \/ CalculateRaised \/ RankRaised

SpecRaise == InitRaise /\ [][NextRaise]_vars

-----------------------------------------------------------------------------
(* The fetchers: fetch called on one fetcher for one member and one period.  *)
(* A test-mode fetcher is called up to MaxCalls times; for a live fetcher    *)
(* one call is followed.                                                     *)

FetchMember == {[account |-> "u1", hash_val |-> h] : h \in 0..MaxHash}

JiraFetchers ==
    {[kind |-> "jira", test_mode |-> t, project |-> "P81",
      done_statuses |-> DoneStatuses({}), retry_count |-> 0] : t \in BOOLEAN}

\* a GitHub fetcher built with retry_count 0 or 1
GitHubFetchers ==
    {[kind |-> "github", test_mode |-> t, project |-> "none",
      done_statuses |-> {}, retry_count |-> r] : t \in BOOLEAN, r \in 0..1}

\* a period with two dates, and one built without dates
FetchPeriods ==
    {[start_date |-> Date(1), end_date |-> Date(MaxDay)],
     [start_date |-> NoDate, end_date |-> NoDate]}

InitFetch ==
    /\ pc = "fetch"
    /\ fetcher \in JiraFetchers \cup GitHubFetchers
    /\ member \in FetchMember
    /\ period \in FetchPeriods
    /\ jql = <<>> /\ env = <<>> /\ external_calls = 0 /\ fetched = <<>>
    /\ EngineIdle /\ TrendIdle /\ GhIdle /\ LogIdle

\* JiraFetcher.fetch(member, period)
JiraFetch ==
    /\ pc = "fetch"
    /\ fetcher.kind = "jira"
    /\ Len(fetched) < MaxCalls
    /\ \E e \in IF fetcher.test_mode THEN {<<>>} ELSE JiraEnvs :
        LET r == jira_fetch(fetcher, member, period, e)
            b == build_jql(fetcher, member, period)
        IN  /\ env' = e
            /\ fetched' = Append(fetched, [kind |-> r.kind, data |-> r.data])
            /\ external_calls' = external_calls + r.calls
            /\ jql' = IF ~fetcher.test_mode /\ b.ok THEN b.jql ELSE jql
    /\ pc' = IF fetcher.test_mode THEN "fetch" ELSE "fetched_live"
    /\ UNCHANGED <<fetcher, member, period>>
    /\ UNCHANGED engine_vars /\ UNCHANGED trend_vars /\ UNCHANGED gh_vars
    /\ UNCHANGED log_vars

\* GitHubFetcher.fetch(member, period)
GitHubFetch ==
    /\ pc = "fetch"
    /\ fetcher.kind = "github"
    /\ Len(fetched) < MaxCalls
    /\ \E e \in IF fetcher.test_mode THEN {<<>>} ELSE GitHubEnvs(fetcher.retry_count) :
        LET r == github_fetch(fetcher, member, period, e)
        IN  /\ env' = e
            /\ fetched' = Append(fetched, [kind |-> r.kind, data |-> r.data])
            /\ external_calls' = external_calls + r.calls
    /\ pc' = IF fetcher.test_mode THEN "fetch" ELSE "fetched_live"
    /\ UNCHANGED <<fetcher, member, period, jql>>
    /\ UNCHANGED engine_vars /\ UNCHANGED trend_vars /\ UNCHANGED gh_vars
    /\ UNCHANGED log_vars

NextFetch == JiraFetch \/ GitHubFetch

SpecFetch == InitFetch /\ [][NextFetch]_vars

-----------------------------------------------------------------------------
(* JiraFetcher.build_jql for a member and a period                           *)

Accounts == {"u1", "u2"}

Statuses == {"Done", "Ready for Release", "In Progress"}

\* fetchers built with any list of done statuses, the empty one and None
\* standing for the default
JqlFetchers ==
    {[kind |-> "jira", test_mode |-> FALSE, project |-> "P81",
      done_statuses |-> DoneStatuses(s), retry_count |-> 0] : s \in SUBSET Statuses}

\* periods of one or more days
JqlPeriods ==
    {p \in {[start_date |-> Date(s), end_date |-> Date(e)] :
               s \in 1..MaxDay, e \in 1..MaxDay} :
        p.start_date.day <= p.end_date.day}

InitJql ==
    /\ pc = "jql_start"
    /\ fetcher \in JqlFetchers
    /\ member \in {[account |-> a, hash_val |-> 0] : a \in Accounts}
    /\ period \in JqlPeriods
    /\ jql = <<>> /\ env = <<>> /\ external_calls = 0 /\ fetched = <<>>
    /\ EngineIdle /\ TrendIdle /\ GhIdle /\ LogIdle

\* jql = self.build_jql(member, period)
BuildJql ==
    /\ pc = "jql_start"
    /\ jql' = build_jql(fetcher, member, period).jql
    /\ pc' = "jql_built"
    /\ UNCHANGED <<fetcher, member, period, env, external_calls, fetched>>
    /\ UNCHANGED engine_vars /\ UNCHANGED trend_vars /\ UNCHANGED gh_vars
    /\ UNCHANGED log_vars

NextJql == BuildJql

SpecJql == InitJql /\ [][NextJql]_vars

-----------------------------------------------------------------------------
(* The four engine functions called repeatedly and in any order on the same  *)
(* arguments                                                                 *)

ReuseMetrics == ToleranceMetrics \cup {<<>>}

ReuseWeights == ScenarioWeights \cup {<<>>}

ReuseScoreSets ==
    UNION {[K -> {[total |-> Quarter(0)], [total |-> Quarter(3)]}] :
             K \in SUBSET TrendNames}

Log(fn, result) == Append(call_log, [fn |-> fn, result |-> result])

Called(fn) == \E i \in DOMAIN call_log : call_log[i].fn = fn

InitReuse ==
    /\ pc = "calls"
    /\ raw_data \in ReuseMetrics
    /\ config \in ReuseWeights
    /\ current_scores \in ReuseScoreSets
    /\ previous_scores \in {p \in ReuseScoreSets : Cardinality(DOMAIN p) = 1}
    /\ snapshot = [raw_data |-> raw_data, config |-> config,
                   current_scores |-> current_scores,
                   previous_scores |-> previous_scores]
    /\ call_log = <<>>
    /\ scores = <<>> /\ used_weights = <<>> /\ error = NoError
    /\ ranked = <<>> /\ contributions = <<>> /\ comparison = <<>>
    /\ GhIdle /\ FetchIdle

\* scores = calculate_scores(raw_data, config)
CallCalculateScores ==
    /\ pc = "calls" /\ Len(call_log) < MaxEngineCalls
    /\ LET r == calculate_scores(raw_data, config)
           a == ArgumentsAfterCalculateScores(raw_data, config)
       IN  /\ scores' = r.scores /\ used_weights' = r.used /\ error' = r.error
           /\ raw_data' = a.metrics /\ config' = a.weights
           /\ call_log' = Log("calculate_scores", r.scores)
    /\ UNCHANGED <<pc, ranked, contributions, snapshot>>
    /\ UNCHANGED trend_vars /\ UNCHANGED gh_vars /\ UNCHANGED fetch_vars

\* ranked = rank_scores(scores)
CallRankScores ==
    /\ pc = "calls" /\ Len(call_log) < MaxEngineCalls
    /\ Called("calculate_scores")
    /\ ranked' = rank_scores(scores)
    /\ scores' = ArgumentAfterRankScores(scores)
    /\ call_log' = Log("rank_scores", ranked')
    /\ UNCHANGED <<pc, raw_data, config, used_weights, error, contributions, snapshot>>
    /\ UNCHANGED trend_vars /\ UNCHANGED gh_vars /\ UNCHANGED fetch_vars

\* contributions = calculate_component_contributions(scores)
CallContributions ==
    /\ pc = "calls" /\ Len(call_log) < MaxEngineCalls
    /\ Called("calculate_scores")
    /\ contributions' = calculate_component_contributions(scores)
    /\ scores' = ArgumentAfterContributions(scores)
    /\ call_log' = Log("calculate_component_contributions", contributions')
    /\ UNCHANGED <<pc, raw_data, config, used_weights, error, ranked, snapshot>>
    /\ UNCHANGED trend_vars /\ UNCHANGED gh_vars /\ UNCHANGED fetch_vars

\* comparison = compare_periods(current_scores, previous_scores)
CallComparePeriods ==
    /\ pc = "calls" /\ Len(call_log) < MaxEngineCalls
    /\ comparison' = compare_periods(current_scores, previous_scores)
    /\ LET a == ArgumentsAfterComparePeriods(current_scores, previous_scores)
       IN  current_scores' = a.current /\ previous_scores' = a.previous
    /\ call_log' = Log("compare_periods", comparison')
    /\ UNCHANGED <<pc, snapshot>>
    /\ UNCHANGED engine_vars /\ UNCHANGED gh_vars /\ UNCHANGED fetch_vars

NextReuse ==
    CallCalculateScores \/ CallRankScores \/ CallContributions \/ CallComparePeriods

SpecReuse == InitReuse /\ [][NextReuse]_vars

-----------------------------------------------------------------------------
(* fetch_via_mcp.parse_mcp_jira_response                                     *)
(* A dict is a function; None and {} are both the empty function (falsy).    *)
(* The grouping key f"{display_name}|{account_id}" is the pair of the two.   *)

\* lines 56-57: assignee.get("accountId", "unknown"), .get("displayName", "Unknown")
AccountIdOf(assignee) ==
    IF "accountId" \in DOMAIN assignee THEN assignee.accountId ELSE "unknown"

DisplayNameOf(assignee) ==
    IF "displayName" \in DOMAIN assignee THEN assignee.displayName ELSE "Unknown"

\* line 59
GroupKey(assignee) == <<DisplayNameOf(assignee), AccountIdOf(assignee)>>

\* line 55: "if assignee:"
HasAssignee(issue) == DOMAIN issue.fields.assignee # {}

\* lines 52-62: the keys of by_assignee in insertion order
RECURSIVE GroupKeysFrom(_, _, _)
GroupKeysFrom(issues, i, keys) ==
    IF i > Len(issues) THEN keys
    ELSE LET issue == issues[i]
             key == GroupKey(issue.fields.assignee)
         IN  IF HasAssignee(issue) /\ \A k \in 1..Len(keys) : keys[k] # key
             THEN GroupKeysFrom(issues, i + 1, Append(keys, key))
             ELSE GroupKeysFrom(issues, i + 1, keys)

\* lines 60-62: by_assignee[key]
MemberIssues(issues, key) ==
    SelectSeq(issues,
              LAMBDA issue : HasAssignee(issue) /\ GroupKey(issue.fields.assignee) = key)

\* line 76: fields.get("customfield_10016") or fields.get("storyPoints") or 0
StoryPointsOf(fields) ==
    IF fields.customfield_10016 # 0 THEN fields.customfield_10016
    ELSE IF fields.storyPoints # 0 THEN fields.storyPoints
    ELSE 0

\* lines 71-78
RECURSIVE SumMcpStoryPoints(_, _)
SumMcpStoryPoints(member_issues, i) ==
    IF i > Len(member_issues) THEN 0
    ELSE StoryPointsOf(member_issues[i].fields) + SumMcpStoryPoints(member_issues, i + 1)

\* lines 80-83: metrics[display_name] = {...}; an existing entry is replaced
StoreMetrics(metrics, key, member_issues) ==
    LET display_name == key[1]
        entry == [items_completed |-> Len(member_issues),
                  story_points |-> SumMcpStoryPoints(member_issues, 1)]
    IN  [n \in DOMAIN metrics \cup {display_name} |->
            IF n = display_name THEN entry ELSE metrics[n]]

\* lines 66-83
RECURSIVE MetricsFrom(_, _, _, _)
MetricsFrom(issues, keys, k, metrics) ==
    IF k > Len(keys) THEN metrics
    ELSE MetricsFrom(issues, keys, k + 1,
                     StoreMetrics(metrics, keys[k], MemberIssues(issues, keys[k])))

\* lines 40-85
parse_mcp_jira_response(issues) ==
    MetricsFrom(issues, GroupKeysFrom(issues, 1, <<>>), 1, <<>>)

McpAssignees ==
    {<<>>, [displayName |-> "Alice"]}
        \cup {[displayName |-> n, accountId |-> a] : n \in {"Alice", "Bob"}, a \in {"abc", "def"}}

McpIssues ==
    {[fields |-> [assignee |-> a, customfield_10016 |-> c, storyPoints |-> s]] :
        a \in McpAssignees, c \in {0, MaxPoints}, s \in {0, 1}}

RECURSIVE McpResponses(_)
McpResponses(n) ==
    IF n = 0 THEN {<<>>}
    ELSE LET shorter == McpResponses(n - 1)
         IN  shorter \cup {Append(r, i) : r \in {x \in shorter : Len(x) = n - 1}, i \in McpIssues}

\* env holds mcp_response["issues"], fetched the returned metrics
InitMcp ==
    /\ pc = "mcp_start"
    /\ env \in McpResponses(MaxMcpIssues)
    /\ fetched = <<>>
    /\ fetcher = <<>> /\ member = <<>> /\ period = <<>> /\ jql = <<>>
    /\ external_calls = 0
    /\ EngineIdle /\ TrendIdle /\ GhIdle /\ LogIdle

ParseMcpJiraResponse ==
    /\ pc = "mcp_start"
    /\ fetched' = parse_mcp_jira_response(env)
    /\ pc' = "mcp_parsed"
    /\ UNCHANGED <<fetcher, member, period, jql, env, external_calls>>
    /\ UNCHANGED engine_vars /\ UNCHANGED trend_vars /\ UNCHANGED gh_vars
    /\ UNCHANGED log_vars

NextMcp == ParseMcpJiraResponse

SpecMcp == InitMcp /\ [][NextMcp]_vars

-----------------------------------------------------------------------------
(* MetricData.merge: fetched holds self, other and then the merged result     *)

MetricDatas ==
    {MetricData(i, s, p, r) :
        i \in 0..MaxField, s \in 0..MaxField, p \in 0..MaxField, r \in 0..MaxField}

InitMerge ==
    /\ pc = "merge_start"
    /\ fetched \in {<<a, b>> : a \in MetricDatas, b \in MetricDatas}
    /\ fetcher = <<>> /\ member = <<>> /\ period = <<>> /\ jql = <<>> /\ env = <<>>
    /\ external_calls = 0
    /\ EngineIdle /\ TrendIdle /\ GhIdle /\ LogIdle

\* merged = self.merge(other)
Merge ==
    /\ pc = "merge_start"
    /\ fetched' = Append(fetched, merge(fetched[1], fetched[2]))
    /\ pc' = "merged"
    /\ UNCHANGED <<fetcher, member, period, jql, env, external_calls>>
    /\ UNCHANGED engine_vars /\ UNCHANGED trend_vars /\ UNCHANGED gh_vars
    /\ UNCHANGED log_vars

NextMerge == Merge

SpecMerge == InitMerge /\ [][NextMerge]_vars

-----------------------------------------------------------------------------
(* Properties of calculate_scores and calculate_component_contributions      *)

\* the raw value of member i for counter c (absent counters read as 0)
RawOf(i, c) == Get(raw_data[i].data, c, PyInt(0)).v

TeamMax(c) ==
    CHOOSE m \in {RawOf(i, c) : i \in DOMAIN raw_data} :
        \A j \in DOMAIN raw_data : RawOf(j, c) <= m

ScoreField(c) ==
    CASE c = "items_completed" -> "items_score"
      [] c = "prs_authored"    -> "prs_score"
      [] c = "code_reviews"    -> "reviews_score"

\* C1 (as claimed): a member whose raw value is the team maximum on each of the
\* three counters receives total == 100, for every metric set and weight set.
\* Stated on the metric sets whose three team maxima are positive and the
\* weight sets with a positive sum, where neither the zero-max rule nor the
\* zero-sum rule applies.
C1_TopOnAllCountersTotalIs100 ==
    (pc = "scored" /\ RGt(WeightSum(config), Zero)) =>
        \A i \in DOMAIN scores :
            (\A c \in Range(Counters) : RawOf(i, c) = TeamMax(c) /\ TeamMax(c) > 0)
                => scores[i].data.total = Hundred

\* C2 (as claimed): for every non-empty metric set and each counter, every
\* member whose raw value equals the team maximum has scaled score exactly 100.
C2_MaxScores100_Original ==
    pc = "scored" =>
        \A i \in DOMAIN scores : \A c \in Range(Counters) :
            RawOf(i, c) = TeamMax(c) => scores[i].data[ScoreField(c)] = Hundred

\* C2 (amended): for every non-empty metric set and each counter whose team
\* maximum is positive, every member whose raw value equals that maximum has
\* scaled score exactly 100; when the team maximum is 0 the score is 0.
C2_PositiveMaxScores100 ==
    pc = "scored" =>
        \A i \in DOMAIN scores : \A c \in Range(Counters) :
            RawOf(i, c) = TeamMax(c) =>
                scores[i].data[ScoreField(c)] = IF TeamMax(c) > 0 THEN Hundred ELSE Zero

\* two members tie at a positive maximum of a counter and a third value of
\* another counter is below its maximum
C2_Witness ==
    /\ pc = "scored"
    /\ Len(scores) = 2
    /\ RawOf(1, "items_completed") = RawOf(2, "items_completed")
    /\ RawOf(1, "items_completed") > 0
    /\ scores[1].data.items_score = Hundred
    /\ scores[2].data.items_score = Hundred
    /\ RawOf(1, "prs_authored") < RawOf(2, "prs_authored")
    /\ scores[2].data.prs_score = Hundred

\* C4: for every member in the output of calculate_scores the three
\* contribution percentages sum to 100 when the member's total is > 0 and are
\* all 0 when the total is 0.
C4_ContributionsSumTo100 ==
    pc = "contributed" =>
        /\ Len(contributions) = Len(scores)
        /\ \A i \in DOMAIN scores :
            LET total == scores[i].data.total
                c == contributions[i].data
            IN  /\ contributions[i].name = scores[i].name
                /\ RGt(total, Zero) =>
                     RAdd(RAdd(c.items_pct, c.prs_pct), c.reviews_pct) = Hundred
                /\ total = Zero =>
                     c = [items_pct |-> Zero, prs_pct |-> Zero, reviews_pct |-> Zero]

\* one member has a positive total made of more than one component, another
\* member has total 0
C4_Witness ==
    /\ pc = "contributed"
    /\ \E i, j \in DOMAIN scores :
        /\ RGt(scores[i].data.total, Zero)
        /\ RGt(contributions[i].data.items_pct, Zero)
        /\ RGt(contributions[i].data.prs_pct, Zero)
        /\ scores[j].data.total = Zero
        /\ contributions[j].data.items_pct = Zero

\* C7 (as claimed): for every input weight set the three weights that
\* calculate_scores multiplies the scaled scores by sum to 1.0.  Stated on
\* the weight sets with a positive sum, which the code does normalize.
C7_AppliedWeightsSumToOne ==
    (pc = "scored" /\ raw_data # <<>> /\ RGt(WeightSum(config), Zero)) =>
        RAdd(RAdd(used_weights["items_completed"], used_weights["prs_authored"]),
             used_weights["code_reviews"]) = R(1)

\* C8 (as claimed): with exactly one member whose three raw counters are all
\* positive, the three scaled scores are 100 and total == 100 for every
\* weight set.  Stated on the weight sets with a positive sum.
C8_SingleMemberTotalIs100 ==
    (pc = "scored" /\ Len(raw_data) = 1 /\ RGt(WeightSum(config), Zero)
       /\ \A c \in Range(Counters) : RawOf(1, c) > 0) =>
        /\ scores[1].data.items_score = Hundred
        /\ scores[1].data.prs_score = Hundred
        /\ scores[1].data.reviews_score = Hundred
        /\ scores[1].data.total = Hundred

-----------------------------------------------------------------------------
(* Input-shape errors of calculate_scores (SpecShape)                        *)

\* the (member, counter) pairs of the input that hold a non-numeric value
Offending ==
    {mc \in {raw_data[i].name : i \in DOMAIN raw_data} \X Range(Counters) :
        \E i \in DOMAIN raw_data :
            /\ raw_data[i].name = mc[1]
            /\ Get(raw_data[i].data, mc[2], PyInt(0)).type # "int"}

\* C9 (as claimed): when a raw counter value is non-numeric, calculate_scores
\* ends in an error that identifies the offending member and counter, and it
\* never returns scores computed from a coerced value.
C9_ShapeErrorNamesMemberAndCounter ==
    (pc # "start" /\ Offending # {}) =>
        /\ pc = "raised"
        /\ error.type # "none"
        /\ \E mc \in Offending : mc[1] \in error.names /\ mc[2] \in error.names

-----------------------------------------------------------------------------
(* Properties of rank_scores (SpecRank)                                      *)

\* C3: competition ranking: every entry's rank is 1 plus the number of members
\* with a strictly greater total; equal totals share a rank, and an entry
\* whose total is lower than its predecessor's has rank = its 0-based index in
\* the sorted order + 1.
C3_CompetitionRanking ==
    pc = "ranked" =>
        /\ Len(ranked) = Len(scores)
        /\ \A i \in DOMAIN ranked :
            /\ ranked[i].rank =
                 1 + Cardinality({j \in DOMAIN scores :
                                    RGt(scores[j].data.total, ranked[i].total)})
            /\ \A j \in DOMAIN ranked :
                 ranked[i].total = ranked[j].total => ranked[i].rank = ranked[j].rank
            /\ (i > 1 /\ RLt(ranked[i].total, ranked[i - 1].total))
                 => ranked[i].rank = (i - 1) + 1

\* three members tied for 1st, the next member has rank 4
C3_Witness ==
    /\ pc = "ranked"
    /\ Len(ranked) >= 4
    /\ ranked[1].rank = 1 /\ ranked[2].rank = 1 /\ ranked[3].rank = 1
    /\ ranked[1].total = ranked[3].total
    /\ RLt(ranked[4].total, ranked[3].total)
    /\ ranked[4].rank = 4

\* C14: rank_scores returns exactly one entry per member of its input (same
\* names, same length, the empty input gives the empty list), ordered by
\* non-increasing total; the first entry has rank 1 and the ranks are
\* non-decreasing along the list.
C14_RankedListShape ==
    pc = "ranked" =>
        /\ Len(ranked) = Len(scores)
        /\ (scores = <<>>) => (ranked = <<>>)
        /\ \A i \in DOMAIN scores :
              Cardinality({j \in DOMAIN ranked :
                             /\ ranked[j].name = scores[i].name
                             /\ ranked[j].total = scores[i].data.total}) = 1
        /\ \A j \in DOMAIN ranked : \E i \in DOMAIN scores : ranked[j].name = scores[i].name
        /\ \A j \in DOMAIN ranked :
              j > 1 => /\ ~RGt(ranked[j].total, ranked[j - 1].total)
                       /\ ranked[j].rank >= ranked[j - 1].rank
        /\ (ranked # <<>>) => ranked[1].rank = 1

\* an input in ascending order of totals comes out reversed, ranks 1, 2, 3
C14_Witness ==
    /\ pc = "ranked"
    /\ Len(scores) = 3
    /\ RLt(scores[1].data.total, scores[2].data.total)
    /\ RLt(scores[2].data.total, scores[3].data.total)
    /\ ranked[1].name = scores[3].name /\ ranked[1].rank = 1
    /\ ranked[2].name = scores[2].name /\ ranked[2].rank = 2
    /\ ranked[3].name = scores[1].name /\ ranked[3].rank = 3

\* the empty mapping gives the empty list
C14_WitnessEmpty == pc = "ranked" /\ scores = <<>> /\ ranked = <<>>

\* the position of a member in the iteration order of the input mapping
InputIndex(name) == CHOOSE i \in DOMAIN scores : scores[i].name = name

\* C22: in the output of rank_scores, members with equal totals appear in the
\* same relative order as in the iteration order of the input mapping.
C22_StableSort ==
    pc = "ranked" =>
        \A i \in DOMAIN ranked : \A j \in DOMAIN ranked :
            (i < j /\ ranked[i].total = ranked[j].total) =>
                InputIndex(ranked[i].name) < InputIndex(ranked[j].name)

\* two tied members separated in the input by a member with a higher total
\* keep their input order behind it
C22_Witness ==
    /\ pc = "ranked"
    /\ Len(scores) = 3
    /\ scores[1].data.total = scores[3].data.total
    /\ RGt(scores[2].data.total, scores[1].data.total)
    /\ ranked[1].name = scores[2].name
    /\ ranked[2].name = scores[1].name
    /\ ranked[3].name = scores[3].name

\* C30: the rank number of a member depends only on the totals, not on the
\* iteration order of the input mapping: ranking any reordering of the same
\* mapping gives every member the same rank.
C30_RankIndependentOfOrder ==
    pc = "ranked_both" =>
        /\ Len(call_log) = Len(ranked)
        /\ \A i \in DOMAIN ranked : \E j \in DOMAIN call_log :
              /\ call_log[j].name = ranked[i].name
              /\ call_log[j].rank = ranked[i].rank

\* two tied members behind a leader, given in both orders: they swap places in
\* the output list and both keep rank 2
C30_Witness ==
    /\ pc = "ranked_both"
    /\ Len(ranked) = 3
    /\ ranked[2].total = ranked[3].total
    /\ RGt(ranked[1].total, ranked[2].total)
    /\ call_log[2].name = ranked[3].name /\ call_log[3].name = ranked[2].name
    /\ ranked[2].rank = 2 /\ ranked[3].rank = 2
    /\ call_log[2].rank = 2 /\ call_log[3].rank = 2

-----------------------------------------------------------------------------
(* Properties of compare_periods (SpecCompare)                               *)

\* the total of a member in a score set, in quarters (0 when the member or its
\* total is absent)
QuartersOf(score_set, name) ==
    IF name \in DOMAIN score_set /\ "total" \in DOMAIN score_set[name]
    THEN (score_set[name].total.n * 4) \div score_set[name].total.d
    ELSE 0

ChangeInQuarters(name) ==
    QuartersOf(current_scores, name) - QuartersOf(previous_scores, name)

\* C5: a member is labelled "up" exactly when change = current - previous is
\* strictly greater than 0.5, "down" exactly when it is strictly less than
\* -0.5 and "stable" otherwise; a change of exactly +0.5 or -0.5 is "stable".
C5_TrendThresholds ==
    pc = "compared" =>
        \A name \in DOMAIN comparison :
            LET dq == ChangeInQuarters(name)
                t == comparison[name].trend
            IN  /\ comparison[name].change = Quarter(dq)
                /\ (t = "up") <=> (dq > 2)
                /\ (t = "down") <=> (dq < -2)
                /\ (t = "stable") <=> (dq >= -2 /\ dq <= 2)

\* one member changed by exactly +0.5, another by exactly -0.5, both stable
C5_Witness ==
    /\ pc = "compared"
    /\ \E a, b \in DOMAIN comparison :
        /\ comparison[a].change = Half /\ comparison[a].trend = "stable"
        /\ comparison[b].change = RSub(Zero, Half) /\ comparison[b].trend = "stable"

Leavers == DOMAIN previous_scores \ DOMAIN current_scores

\* C6 (as claimed): every member present only in the previous period has
\* current == 0 and trend == "down".
C6_LeaverIsDown_Original ==
    pc = "compared" =>
        \A name \in Leavers :
            comparison[name].current = Zero /\ comparison[name].trend = "down"

\* C6 (amended): every member present only in the previous period has
\* current == 0, and trend == "down" exactly when its previous total exceeds
\* 0.5; otherwise its trend is "stable".
C6_LeaverIsDownAboveHalf ==
    pc = "compared" =>
        \A name \in Leavers :
            /\ name \in DOMAIN comparison
            /\ comparison[name].current = Zero
            /\ comparison[name].trend =
                 IF QuartersOf(previous_scores, name) > 2 THEN "down" ELSE "stable"

\* a leaver with a previous total above 0.5 is down, another with a previous
\* total of exactly 0.5 is stable
C6_Witness ==
    /\ pc = "compared"
    /\ \E a, b \in Leavers :
        /\ QuartersOf(previous_scores, a) > 2 /\ comparison[a].trend = "down"
        /\ QuartersOf(previous_scores, b) = 2 /\ comparison[b].trend = "stable"

-----------------------------------------------------------------------------
(* Properties of _run_gh_command_with_retry (FairRetry)                      *)

IsSuccess(o) == o.kind = "exit0_json"

\* the index of the first successful call that follows only rate-limited ones
FirstSuccessAfterRateLimits(k) ==
    /\ k \in DOMAIN history
    /\ IsSuccess(history[k])
    /\ \A i \in 1..(k - 1) : history[i].kind = "rate_limit"

C10_Safety ==
    /\ Len(history) <= retry_count
    /\ gh_result.kind # "raise"
    /\ pc = "gh_done" =>
        /\ gh_result.kind = "return"
        /\ gh_result.value # 0 =>
             \E i \in DOMAIN history : IsSuccess(history[i])
        /\ \A k \in 1..retry_count :
             FirstSuccessAfterRateLimits(k) =>
                gh_result = Returned(history[k].len) /\ Len(history) = k

C23_Safety ==
    \A i \in DOMAIN history :
        /\ history[i].kind \in {"fail_other", "exit0_badjson"} =>
              /\ i = Len(history) /\ attempts = i
              /\ pc = "gh_done" /\ gh_result = Returned(0)
        /\ (history[i].kind = "rate_limit" /\ i < retry_count) =>
              \/ Len(history) > i
              \/ pc \in {"gh_sleep", "gh_while", "gh_run"} /\ gh_result = NotReturned
        /\ (history[i].kind = "rate_limit" /\ i = retry_count) =>
              pc = "gh_done" /\ gh_result = Returned(0)

\* C23: a non-zero exit whose stderr contains "rate limit" leads to another
\* attempt while attempts remain; any other non-zero exit, and an exit 0 whose
\* output is not valid JSON, makes the call return 0 at once with no further
\* subprocess invocation.
C23_RetryClassification ==
    /\ [](C23_Safety)
    /\ \A k \in 1..MaxRetryCount :
          (Len(history) = k /\ history[k].kind = "rate_limit" /\ k < retry_count)
              ~> (Len(history) = k + 1)

\* a rate-limited attempt was followed by a second one, which failed for
\* another reason and ended the call with an attempt to spare
C23_Witness ==
    /\ pc = "gh_done"
    /\ retry_count = 3
    /\ Len(history) = 2
    /\ history[1].kind = "rate_limit"
    /\ history[2].kind = "fail_other"
    /\ gh_result = Returned(0)

\* invalid JSON on the first attempt ends the call
C23_WitnessBadJson ==
    /\ pc = "gh_done" /\ retry_count = 3
    /\ history = <<[kind |-> "exit0_badjson", len |-> 0]>>
    /\ gh_result = Returned(0)

Retryable(o) == o.kind \in {"rate_limit", "timeout"}

C24_Safety ==
    /\ pc = "gh_sleep" =>
          /\ history # <<>> /\ Retryable(history[Len(history)])
          /\ attempts < retry_count
    /\ sleeps > 0 =>
          \A i \in 1..sleeps : i \in DOMAIN history /\ Retryable(history[i])
    /\ pc = "gh_run" => sleeps = attempts - 1
    /\ pc = "gh_done" => sleeps = IF attempts = 0 THEN 0 ELSE attempts - 1

-----------------------------------------------------------------------------
(* Ranges and zero maxima of the scaled scores (Spec)                        *)

ScoreFields == {"items_score", "prs_score", "reviews_score"}

\* C12: for non-negative raw values every scaled component score
\* (items_score, prs_score, reviews_score) of every member lies in [0, 100].
C12_ScaledScoresWithin0And100 ==
    pc = "scored" =>
        \A i \in DOMAIN scores : \A f \in ScoreFields :
            /\ ~RLt(scores[i].data[f], Zero)
            /\ ~RGt(scores[i].data[f], Hundred)

\* a member strictly between 0 and the team maximum of a counter, next to a
\* member at the maximum and a counter on which the member has 0
C12_Witness ==
    /\ pc = "scored"
    /\ \E i, j \in DOMAIN scores :
        /\ RawOf(i, "items_completed") > 0
        /\ RawOf(i, "items_completed") < RawOf(j, "items_completed")
        /\ RGt(scores[i].data.items_score, Zero)
        /\ RLt(scores[i].data.items_score, Hundred)
        /\ scores[j].data.items_score = Hundred
        /\ RawOf(i, "prs_authored") = 0
        /\ scores[i].data.prs_score = Zero

\* C13: when every member has 0 for a counter, calculate_scores returns (no
\* division error) and the scaled score of that counter is 0 for every member;
\* when all three counters are 0 for every member, every total is 0.
C13_ZeroMaxGivesZero ==
    (pc # "start" /\ raw_data # <<>>) =>
        /\ pc # "raised"
        /\ error = NoError
        /\ \A c \in Range(Counters) :
              TeamMax(c) = 0 =>
                  \A i \in DOMAIN scores : scores[i].data[ScoreField(c)] = Zero
        /\ (\A c \in Range(Counters) : TeamMax(c) = 0) =>
              \A i \in DOMAIN scores : scores[i].data.total = Zero

\* two members, one counter all-zero while another is not; and the all-zero
\* team
C13_Witness ==
    /\ pc = "scored"
    /\ Len(scores) = 2
    /\ TeamMax("prs_authored") = 0
    /\ TeamMax("items_completed") > 0
    /\ scores[1].data.prs_score = Zero
    /\ scores[2].data.prs_score = Zero
    /\ RGt(WeightSum(config), Zero)

C13_WitnessAllZero ==
    /\ pc = "scored"
    /\ Len(scores) = 2
    /\ \A c \in Range(Counters) : TeamMax(c) = 0
    /\ \A i \in DOMAIN scores : scores[i].data.total = Zero

-----------------------------------------------------------------------------
(* Members joining and leaving between periods (SpecCompare)                 *)

Joiners == DOMAIN current_scores \ DOMAIN previous_scores

\* C15: the key set of compare_periods' result is the union of the member
\* names of the two inputs; a member missing from one side has total 0 on
\* that side; a member present only in the current period has previous == 0,
\* change == its current total, and trend "up" whenever that total exceeds 0.5.
C15_UnionOfMembers ==
    pc = "compared" =>
        /\ DOMAIN comparison = DOMAIN current_scores \cup DOMAIN previous_scores
        /\ \A name \in DOMAIN comparison :
              /\ name \notin DOMAIN current_scores => comparison[name].current = Zero
              /\ name \notin DOMAIN previous_scores => comparison[name].previous = Zero
              /\ name \in DOMAIN current_scores =>
                    comparison[name].current = current_scores[name].total
              /\ name \in DOMAIN previous_scores =>
                    comparison[name].previous = previous_scores[name].total
        /\ \A name \in Joiners :
              /\ comparison[name].previous = Zero
              /\ comparison[name].change = current_scores[name].total
              /\ RGt(current_scores[name].total, Half) => comparison[name].trend = "up"

\* one member joined with a total above 0.5 and is up, the other left
C15_Witness ==
    /\ pc = "compared"
    /\ \E a \in Joiners, b \in Leavers :
        /\ RGt(current_scores[a].total, Half)
        /\ comparison[a].previous = Zero
        /\ comparison[a].change = current_scores[a].total
        /\ comparison[a].trend = "up"
        /\ comparison[b].current = Zero
        /\ DOMAIN comparison = {a, b}

-----------------------------------------------------------------------------
(* Degenerate inputs of calculate_scores (Spec)                              *)

\* C16: calculate_scores raises no error on any input whose raw values and
\* weights are non-negative numbers: the empty member set gives the empty
\* mapping, and all-zero metrics, a single member and weights summing to zero
\* give one score record per member.
C16_ReturnsNormally ==
    pc # "start" =>
        /\ pc # "raised"
        /\ error = NoError
        /\ (raw_data = <<>>) => (scores = <<>>)
        /\ Len(scores) = Len(raw_data)
        /\ \A i \in DOMAIN raw_data :
              /\ scores[i].name = raw_data[i].name
              /\ DOMAIN scores[i].data =
                    {"items_score", "prs_score", "reviews_score", "items_weighted",
                     "prs_weighted", "reviews_weighted", "total"}

\* a single member with all-zero metrics under supplied weights summing to zero
C16_Witness ==
    /\ pc = "scored"
    /\ Len(raw_data) = 1
    /\ \A c \in Range(Counters) : RawOf(1, c) = 0
    /\ DOMAIN config = Range(Counters)
    /\ WeightSum(config) = Zero
    /\ Len(scores) = 1
    /\ scores[1].data.total = Zero

\* the empty member set gives the empty mapping
C16_WitnessEmpty == pc = "scored" /\ raw_data = <<>> /\ scores = <<>>

-----------------------------------------------------------------------------
(* The worked example of the scoring pipeline (SpecScenario)                 *)

WorkedMetrics ==
    <<[name |-> "Alice", data |-> Metrics(50, 20, 30)],
      [name |-> "Bob", data |-> Metrics(25, 40, 15)]>>

WorkedWeights == Weights(Frac(5, 10), Frac(3, 10), Frac(2, 10))

ScoresAre(data, items, prs, reviews, total) ==
    /\ data.items_score = R(items)
    /\ data.prs_score = R(prs)
    /\ data.reviews_score = R(reviews)
    /\ data.total = R(total)

\* C17: for Alice (50, 20, 30), Bob (25, 40, 15) and weights 0.5/0.3/0.2,
\* calculate_scores gives Alice scores 100/50/100 and total 85, Bob scores
\* 50/100/50 and total 65, and rank_scores ranks Alice 1 and Bob 2; for every
\* input each weighted value is the scaled score times the applied weight and
\* the total is the sum of the three weighted values.
C17_WorkedExample ==
    pc \in {"scored", "ranked"} =>
        /\ \A i \in DOMAIN scores :
              LET d == scores[i].data
              IN  /\ d.items_weighted = RMul(d.items_score, used_weights["items_completed"])
                  /\ d.prs_weighted = RMul(d.prs_score, used_weights["prs_authored"])
                  /\ d.reviews_weighted = RMul(d.reviews_score, used_weights["code_reviews"])
                  /\ d.total = RAdd(RAdd(d.items_weighted, d.prs_weighted),
                                    d.reviews_weighted)
        /\ (raw_data = WorkedMetrics /\ config = WorkedWeights) =>
              /\ used_weights = WorkedWeights
              /\ scores[1].name = "Alice"
              /\ ScoresAre(scores[1].data, 100, 50, 100, 85)
              /\ scores[2].name = "Bob"
              /\ ScoresAre(scores[2].data, 50, 100, 50, 65)
              /\ pc = "ranked" =>
                    /\ Len(ranked) = 2
                    /\ ranked[1].name = "Alice" /\ ranked[1].rank = 1
                    /\ ranked[2].name = "Bob" /\ ranked[2].rank = 2

\* the worked example has been scored and ranked: weighted values 50 + 15 + 20
\* and 25 + 30 + 10
C17_Witness ==
    /\ pc = "ranked"
    /\ raw_data = WorkedMetrics /\ config = WorkedWeights
    /\ scores[1].data.items_weighted = R(50)
    /\ scores[1].data.prs_weighted = R(15)
    /\ scores[1].data.reviews_weighted = R(20)
    /\ scores[2].data.items_weighted = R(25)
    /\ scores[2].data.prs_weighted = R(30)
    /\ scores[2].data.reviews_weighted = R(10)
    /\ ranked[1].total = R(85) /\ ranked[2].total = R(65)

-----------------------------------------------------------------------------
(* The normalization tolerance (SpecWeights)                                 *)

\* the rule as claimed: sum > 0 and |sum - 1.0| > 0.01
Normalizes(weight_sum) ==
    /\ weight_sum.n > 0
    /\ \/ 100 * weight_sum.n > 101 * weight_sum.d
       \/ 100 * weight_sum.n < 99 * weight_sum.d

\* C20: calculate_scores divides every supplied weight by the weight sum
\* exactly when sum > 0 and |sum - 1.0| > 0.01; when the sum is within 0.01 of
\* 1.0 (0.99 and 1.01 included) or the sum is <= 0, the supplied weights are
\* used unchanged.  Observed on the weights the scaled scores are multiplied by.
C20_NormalizationRule ==
    pc = "scored" =>
        LET weight_sum == WeightSum(config)
        IN  \A k \in DOMAIN config \cap Range(Counters) :
              /\ used_weights[k] = IF Normalizes(weight_sum)
                                   THEN RDiv(config[k], weight_sum)
                                   ELSE config[k]
              /\ \A i \in DOMAIN scores :
                    scores[i].data[CASE k = "items_completed" -> "items_weighted"
                                     [] k = "prs_authored" -> "prs_weighted"
                                     [] k = "code_reviews" -> "reviews_weighted"]
                      = RMul(scores[i].data[ScoreField(k)], used_weights[k])

\* a sum of exactly 1.01 is left unchanged
C20_Witness ==
    /\ pc = "scored"
    /\ DOMAIN config = Range(Counters)
    /\ WeightSum(config) = Frac(101, 100)
    /\ config["items_completed"] = Frac(51, 100)
    /\ used_weights = config

\* a sum of 1.02 is normalized
C20_WitnessNormalized ==
    /\ pc = "scored"
    /\ WeightSum(config) = Frac(102, 100)
    /\ config["items_completed"] = Frac(51, 100)
    /\ used_weights["items_completed"] = Half

\* a negative sum is left unchanged
C20_WitnessNegative ==
    /\ pc = "scored"
    /\ DOMAIN config = Range(Counters)
    /\ RLt(WeightSum(config), Zero)
    /\ used_weights = config

-----------------------------------------------------------------------------
(* Properties of the fetchers (SpecFetch)                                    *)

ZeroMetricData == MetricData(0, 0, 0, 0)

LiveJiraFetchDone ==
    pc = "fetched_live" /\ fetcher.kind = "jira" /\ Len(fetched) = 1

\* the issues of the answer are a list whose every issue can be read
WellFormedIssues(body) ==
    /\ body.type = "dict" /\ body.has_issues /\ body.issues_type = "list"
    /\ \A i \in DOMAIN body.items : body.items[i].kind \in {"points", "no_points"}

\* something failed: the query could not be built, no credentials, curl did
\* not deliver a JSON document, or the document is not a readable answer
JiraFailure ==
    \/ ~FormatsDates(period)
    \/ env.credentials # "ok"
    \/ env.run # "exit0_json"
    \/ ~WellFormedIssues(env.body)

\* C11: JiraFetcher.fetch in non-test mode never raises; on any failure in
\* building the query, executing it or parsing the response it returns a
\* MetricData whose four counters are all 0.
C11_JiraFetchNeverRaises ==
    LiveJiraFetchDone =>
        /\ fetched[1].kind = "return"
        /\ JiraFailure => fetched[1].data = ZeroMetricData
        /\ ~JiraFailure =>
              /\ fetched[1].data.items_completed = Len(env.body.items)
              /\ fetched[1].data.prs_authored = 0
              /\ fetched[1].data.code_reviews = 0

\* the answer lists an issue with story points and then one whose story
\* points cannot be converted: parse_response raises, fetch returns zeros
C11_Witness ==
    /\ LiveJiraFetchDone
    /\ FormatsDates(period)
    /\ env.credentials = "ok" /\ env.run = "exit0_json"
    /\ env.body.type = "dict" /\ env.body.issues_type = "list"
    /\ Len(env.body.items) = 2
    /\ env.body.items[1] = [kind |-> "points", sp |-> 1]
    /\ env.body.items[2].kind = "bad_points"
    /\ fetched[1] = [kind |-> "return", data |-> ZeroMetricData]

\* the query cannot be built
C11_WitnessBuild ==
    /\ LiveJiraFetchDone /\ ~FormatsDates(period)
    /\ external_calls = 0
    /\ fetched[1] = [kind |-> "return", data |-> ZeroMetricData]

\* nothing fails: two issues with story points are counted
C11_WitnessSuccess ==
    /\ LiveJiraFetchDone /\ ~JiraFailure
    /\ fetched[1].data.items_completed = 2
    /\ fetched[1].data.story_points = 2
    /\ external_calls = 2

\* C18: on a fetcher built with test_mode=True, fetch makes no external call
\* (no subprocess invocation, no _execute_jql) and returns the same MetricData
\* for the same member on every call, with strictly positive counters: GitHub
\* prs_authored in 5..34 and code_reviews in 10..59, Jira items_completed in
\* 10..49 and story_points in 5..34.
C18_TestModeIsOfflineAndDeterministic ==
    (fetcher # <<>> /\ fetcher.test_mode) =>
        /\ external_calls = 0
        /\ env = <<>>
        /\ \A i \in DOMAIN fetched :
              /\ fetched[i].kind = "return"
              /\ fetched[i] = fetched[1]
              /\ fetcher.kind = "github" =>
                    /\ fetched[i].data.prs_authored \in 5..34
                    /\ fetched[i].data.code_reviews \in 10..59
              /\ fetcher.kind = "jira" =>
                    /\ fetched[i].data.items_completed \in 10..49
                    /\ fetched[i].data.story_points \in 5..34

\* two calls on a test-mode GitHub fetcher gave the same data, at the top of
\* the range of prs_authored
C18_Witness ==
    /\ fetcher.kind = "github" /\ fetcher.test_mode
    /\ Len(fetched) = 2
    /\ fetched[1].data.prs_authored = 34
    /\ fetched[2] = fetched[1]
    /\ external_calls = 0

\* two calls on a test-mode Jira fetcher, at the bottom of both ranges
C18_WitnessJira ==
    /\ fetcher.kind = "jira" /\ fetcher.test_mode
    /\ Len(fetched) = 2
    /\ fetched[1].data.items_completed = 10
    /\ fetched[1].data.story_points = 5
    /\ fetched[2] = fetched[1]

-----------------------------------------------------------------------------
(* What the query of build_jql selects (SpecJql)                             *)

\* the issues a Jira site may hold: updated before, within or after any period
JiraIssues ==
    [project : {"P81", "OTHER"}, assignee : Accounts, status : Statuses,
     updated : 0..(MaxDay + 1)]

\* JQL: the clauses of a query are joined by AND
Selects(q, issue) ==
    /\ issue.project = q.project
    /\ issue.assignee = q.assignee
    /\ issue.status \in q.status_in
    /\ issue.updated >= q.updated_from

\* C19 (as claimed): the query built for a member and a period restricts the
\* counted issues to those within the period's date range, bounded by both
\* its start date and its end date, and to the configured done statuses.
C19_QueryBoundedByPeriod ==
    pc = "jql_built" =>
        \A issue \in JiraIssues :
            Selects(jql, issue) =>
                /\ issue.assignee = member.account
                /\ issue.status \in fetcher.done_statuses
                /\ issue.updated >= period.start_date.day
                /\ issue.updated <= period.end_date.day

-----------------------------------------------------------------------------
(* Default weights of absent keys (SpecWeights)                              *)

WeightedField(c) ==
    CASE c = "items_completed" -> "items_weighted"
      [] c = "prs_authored"    -> "prs_weighted"
      [] c = "code_reviews"    -> "reviews_weighted"

\* the fixed defaults as the claim lists them
ClaimedDefault(c) ==
    CASE c = "items_completed" -> Half
      [] c = "prs_authored"    -> Frac(3, 10)
      [] c = "code_reviews"    -> Frac(1, 5)

\* C21: a counter whose key is absent from the weight set is weighted with its
\* fixed default (0.5, 0.3, 0.2), applied as-is whether or not the supplied
\* weights were normalized; a key that is present, even with value 0, never
\* falls back to the default.
C21_DefaultsForAbsentKeys ==
    pc = "scored" =>
        \A c \in Range(Counters) :
            /\ c \notin DOMAIN config =>
                  /\ used_weights[c] = ClaimedDefault(c)
                  /\ \A i \in DOMAIN scores :
                        scores[i].data[WeightedField(c)] =
                            RMul(scores[i].data[ScoreField(c)], ClaimedDefault(c))
            /\ c \in DOMAIN config =>
                  /\ used_weights[c] \in
                        {config[c], IF WeightSum(config) = Zero THEN config[c]
                                    ELSE RDiv(config[c], WeightSum(config))}
                  /\ config[c] = Zero => used_weights[c] = Zero

\* the supplied weights are normalized (0.51 of a sum of 0.52 becomes 51/52), a
\* present key holds 0 and stays 0, an absent key gets its default 0.2 as-is
C21_Witness ==
    /\ pc = "scored"
    /\ DOMAIN config = {"items_completed", "prs_authored", "story_points"}
    /\ config["items_completed"] = Frac(51, 100)
    /\ config["prs_authored"] = Zero
    /\ used_weights["items_completed"] = Frac(51, 52)
    /\ used_weights["prs_authored"] = Zero
    /\ used_weights["code_reviews"] = Frac(1, 5)

-----------------------------------------------------------------------------
(* The engine functions do not change their arguments (SpecReuse)            *)

-----------------------------------------------------------------------------
(* MetricData.merge (SpecMerge)                                              *)

MetricFields == {"items_completed", "story_points", "prs_authored", "code_reviews"}

\* C26 (as claimed): merge takes the non-zero values from other: for each of
\* the four fields, whenever other's value is non-zero the merged result
\* holds other's value.
C26_MergeTakesNonZeroFromOther ==
    pc = "merged" =>
        \A f \in MetricFields :
            fetched[2][f] # 0 => fetched[3][f] = fetched[2][f]

-----------------------------------------------------------------------------
(* parse_mcp_jira_response (SpecMcp)                                         *)

RECURSIVE SumItemsCompleted(_, _)
SumItemsCompleted(metrics, names) ==
    IF names = {} THEN 0
    ELSE LET n == CHOOSE x \in names : TRUE
         IN  metrics[n].items_completed + SumItemsCompleted(metrics, names \ {n})

AssignedIssues == {i \in 1..Len(env) : HasAssignee(env[i])}

\* C27 (as claimed): parse_mcp_jira_response conserves issues: the sum of
\* items_completed over all members of the result equals the number of input
\* issues with a non-empty assignee, for every input.
C27_IssuesConserved ==
    pc = "mcp_parsed" =>
        SumItemsCompleted(fetched, DOMAIN fetched) = Cardinality(AssignedIssues)

\* the same restricted to inputs where no two group keys share a display name
DistinctDisplayNames ==
    \A i, j \in AssignedIssues :
        DisplayNameOf(env[i].fields.assignee) = DisplayNameOf(env[j].fields.assignee)
            => AccountIdOf(env[i].fields.assignee) = AccountIdOf(env[j].fields.assignee)

C27_ConservedForDistinctNames ==
    (pc = "mcp_parsed" /\ DistinctDisplayNames) =>
        SumItemsCompleted(fetched, DOMAIN fetched) = Cardinality(AssignedIssues)

-----------------------------------------------------------------------------
(* The range of the total (SpecRange)                                        *)

RLe(x, y) == ~RLt(y, x)

\* the weight set holds all three counter keys, no negative weight, and a
\* positive sum
FullNonNegativeWeights ==
    /\ Range(Counters) \subseteq DOMAIN config
    /\ \A k \in DOMAIN config : RLe(Zero, config[k])
    /\ RLt(Zero, WeightSum(config))

\* the sum exceeds 1 by no more than the tolerance, so the set is not normalized
SumJustAboveOne ==
    /\ RLt(R(1), WeightSum(config))
    /\ RLe(WeightSum(config), RAdd(R(1), Tolerance))

\* C28 (as claimed): for non-negative raw values and a weight set holding all
\* three counter keys with non-negative weights and a positive sum, every
\* member's total lies in [0, 100].
C28_TotalWithin0And100 ==
    (pc = "scored" /\ FullNonNegativeWeights) =>
        \A i \in DOMAIN scores :
            /\ RLe(Zero, scores[i].data.total)
            /\ RLe(scores[i].data.total, Hundred)

\* C28 (amended): under the same conditions every total lies in [0, 101], and
\* in [0, 100] unless the weight sum exceeds 1 by at most 0.01.
C28_TotalWithin0And101 ==
    (pc = "scored" /\ FullNonNegativeWeights) =>
        \A i \in DOMAIN scores :
            /\ RLe(Zero, scores[i].data.total)
            /\ RLe(scores[i].data.total, R(101))
            /\ ~SumJustAboveOne => RLe(scores[i].data.total, Hundred)

\* weights 0.505, 0.5, 0 pass through un-normalized and the member holding
\* both maxima totals 100.5
C28_Witness ==
    /\ pc = "scored"
    /\ FullNonNegativeWeights
    /\ config = Weights(Frac(101, 200), Half, Zero)
    /\ \E i \in DOMAIN scores : scores[i].data.total = Frac(201, 2)

\* a normalized set (sum 1.25) whose top member totals exactly 100
C28_WitnessNormalized ==
    /\ pc = "scored"
    /\ FullNonNegativeWeights
    /\ config = Weights(Half, Half, Frac(1, 4))
    /\ \E i \in DOMAIN scores : scores[i].data.total = Hundred

-----------------------------------------------------------------------------
(* Monotonicity in one raw value (SpecRaise)                                 *)

\* the member whose raw value was raised
RaisedMember == CHOOSE i \in DOMAIN raw_data : snapshot[i] # raw_data[i]

RankOf(ranking, name) == (CHOOSE e \in Range(ranking) : e.name = name).rank

\* C29: with non-negative weights, raising one member's raw value on one
\* counter and leaving everything else unchanged never decreases that member's
\* total, never increases another member's total, and never gives that member
\* a numerically larger rank.
C29_MonotoneInRawValue ==
    pc = "raised_ranked" =>
        /\ RLe(scores[RaisedMember].data.total, call_log[1][RaisedMember].data.total)
        /\ \A j \in DOMAIN scores \ {RaisedMember} :
              RLe(call_log[1][j].data.total, scores[j].data.total)
        /\ RankOf(call_log[2], scores[RaisedMember].name)
              <= RankOf(ranked, scores[RaisedMember].name)

\* the raise takes the team maximum: the member's total grows, the other's
\* shrinks, and the member moves from rank 2 to rank 1
C29_Witness ==
    /\ pc = "raised_ranked"
    /\ RLt(scores[RaisedMember].data.total, call_log[1][RaisedMember].data.total)
    /\ \E j \in DOMAIN scores \ {RaisedMember} :
          RLt(call_log[1][j].data.total, scores[j].data.total)
    /\ RankOf(ranked, scores[RaisedMember].name) = 2
    /\ RankOf(call_log[2], scores[RaisedMember].name) = 1

====
